---------------------------- MODULE Spec2Model ----------------------------
(***************************************************************************)
(* A model of the discovery and adaptive extraction pipeline of sponge:    *)
(* SmartPageFetcher.fetch_all (apps/crawler/page_fetcher.py) with the      *)
(* PlaywrightProvider it renders through, and LinkCrawler.crawl            *)
(* (apps/crawler/link_crawler.py).                                         *)
(*                                                                         *)
(* Python values are modelled as follows.  An optional value is a sequence *)
(* of length 0 (None) or 1 (the value).  A string that the code searches   *)
(* or cuts is a sequence of tokens: words, a single blank " ", and runs of *)
(* filler characters; TokLen gives each token's length in characters.  The *)
(* outcome of a coroutine is a record that says whether it returned or     *)
(* raised.                                                                 *)
(***************************************************************************)
EXTENDS Integers, Sequences, FiniteSets, TLC

(***************************************************************************)
(* Bounds of the model.                                                    *)
(***************************************************************************)
MaxPages == 2
MaxPoolPages == 4
MaxConcurrency == 2

(***************************************************************************)
(* Program constants.                                                      *)
(***************************************************************************)
DEFAULT_DELAY_MS == 300
BROWSER_CONCURRENCY == 3
SOFT_404_PREFIX == 500

None == <<>>
Some(x) == <<x>>
IsNone(o) == Len(o) = 0
Bool(o) == Len(o) > 0

(***************************************************************************)
(* Strings.                                                                *)
(***************************************************************************)
Cut == "~"

TokLen(t) ==
  CASE t = " " -> 1
    [] t = Cut -> 1
    [] t = "x100" -> 100
    [] t = "x400" -> 400
    [] t \in {"404", "Not", "not"} -> 3
    [] t \in {"Home", "Oops"} -> 4
    [] t \in {"Found", "found", "Hello", "world"} -> 5
    [] t \in {"Access", "access", "Denied", "denied"} -> 6
    [] t = "Welcome" -> 7
    [] OTHER -> 1

LowerTok(t) ==
  CASE t = "Not" -> "not"
    [] t = "Found" -> "found"
    [] t = "Access" -> "access"
    [] t = "Denied" -> "denied"
    [] t = "Home" -> "home"
    [] t = "Welcome" -> "welcome"
    [] t = "Hello" -> "hello"
    [] t = "Oops" -> "oops"
    [] OTHER -> t

\* str.lower()
Lower(s) == [k \in 1..Len(s) |-> LowerTok(s[k])]

RECURSIVE LStrip(_)
LStrip(s) == IF Len(s) > 0 /\ Head(s) = " " THEN LStrip(Tail(s)) ELSE s

RECURSIVE RStripBlank(_)
RStripBlank(s) ==
  IF Len(s) > 0 /\ s[Len(s)] = " " THEN RStripBlank(SubSeq(s, 1, Len(s) - 1)) ELSE s

\* str.strip()
Strip(s) == RStripBlank(LStrip(s))

RECURSIVE CharLen(_)
CharLen(s) == IF Len(s) = 0 THEN 0 ELSE TokLen(Head(s)) + CharLen(Tail(s))

\* s[:k]: the tokens that fit whole, then what is left of the token the cut
\* falls into (a word cut short is no longer that word).
RECURSIVE Prefix(_, _)
Prefix(s, k) ==
  IF Len(s) = 0 \/ k <= 0 THEN <<>>
  ELSE IF TokLen(Head(s)) <= k
       THEN <<Head(s)>> \o Prefix(Tail(s), k - TokLen(Head(s)))
       ELSE <<Cut>>

\* `sub in s`
Contains(s, sub) ==
  \E k \in 0..(Len(s) - Len(sub)) : SubSeq(s, k + 1, k + Len(sub)) = sub

\* The entries of _SOFT_404_SIGNALS that can occur in the documents below.
SOFT_404_SIGNALS ==
  { <<"not", " ", "found">>,
    <<"404", " ", "not", " ", "found">>,
    <<"access", " ", "denied">> }

\* (x or "")
OrEmpty(o) == IF IsNone(o) THEN <<>> ELSE o[1]

\* is_soft_404 without the .lower() calls.
is_soft_404_case_sensitive(page) ==
  LET fields_to_check ==
        { Strip(OrEmpty(page.title)),
          Strip(OrEmpty(page.description)),
          Prefix(OrEmpty(page.content_text), SOFT_404_PREFIX) }
  IN  \E field \in fields_to_check : \E signal \in SOFT_404_SIGNALS :
        Contains(field, signal)

is_soft_404(page) ==
  LET fields_to_check ==
        { Strip(Lower(OrEmpty(page.title))),
          Strip(Lower(OrEmpty(page.description))),
          Lower(Prefix(OrEmpty(page.content_text), SOFT_404_PREFIX)) }
  IN  \E field \in fields_to_check : \E signal \in SOFT_404_SIGNALS :
        Contains(field, signal)


(***************************************************************************)
(* HTML documents, as far as MetaExtractor and ContentExtractor read them. *)
(* A document records the tags the extractors look for: the <title>        *)
(* string, the first <h1>, the description metas, the first <p>, the       *)
(* features of <body> that detect_csr inspects, and the markdown that      *)
(* ContentExtractor.extract produces from it.                              *)
(***************************************************************************)
MAX_DESCRIPTION_LENGTH == 500
CSR_TEXT_SSR == 200
CSR_TEXT_ROOT == 50
CSR_TEXT_NOSCRIPT == 100
CSR_TEXT_EMPTY == 50
MIN_P_LENGTH == 20

Doc(title_tag, h1, meta_description, og_description, first_p, has_body, body_text_len, next_div, root_div, noscript, non_script_children, content) ==
  [title_tag |-> title_tag, h1 |-> h1, meta_description |-> meta_description,
   og_description |-> og_description, first_p |-> first_p, has_body |-> has_body,
   body_text_len |-> body_text_len, next_div |-> next_div, root_div |-> root_div,
   noscript |-> noscript, non_script_children |-> non_script_children,
   content |-> content]

\* _extract_meta: the content attribute, stripped, when the tag has a
\* non-empty one.
extract_meta(tag) ==
  IF Bool(tag) /\ Len(tag[1]) > 0 THEN Some(Strip(tag[1])) ELSE None

extract_title(doc) ==
  IF Bool(doc.title_tag) /\ Len(doc.title_tag[1]) > 0
  THEN Some(Strip(doc.title_tag[1]))
  ELSE IF Bool(doc.h1) THEN Some(Strip(doc.h1[1])) ELSE None

\* _extract_description without the [:MAX_DESCRIPTION_LENGTH] slices
extract_description_untruncated(doc) ==
  LET desc == extract_meta(doc.meta_description)
      og_desc == extract_meta(doc.og_description)
  IN  IF Bool(desc) /\ Len(desc[1]) > 0 THEN desc
      ELSE IF Bool(og_desc) /\ Len(og_desc[1]) > 0 THEN og_desc
      ELSE IF Bool(doc.first_p) /\ CharLen(Strip(doc.first_p[1])) > MIN_P_LENGTH
      THEN Some(Strip(doc.first_p[1]))
      ELSE None

extract_description(doc) ==
  LET desc == extract_meta(doc.meta_description)
      og_desc == extract_meta(doc.og_description)
  IN  IF Bool(desc) /\ Len(desc[1]) > 0
      THEN Some(Prefix(desc[1], MAX_DESCRIPTION_LENGTH))
      ELSE IF Bool(og_desc) /\ Len(og_desc[1]) > 0
      THEN Some(Prefix(og_desc[1], MAX_DESCRIPTION_LENGTH))
      ELSE IF Bool(doc.first_p) /\ CharLen(Strip(doc.first_p[1])) > MIN_P_LENGTH
      THEN Some(Prefix(Strip(doc.first_p[1]), MAX_DESCRIPTION_LENGTH))
      ELSE None

\* A Python string is truthy when it is non-empty.
Truthy(o) == Bool(o) /\ Len(o[1]) > 0

\* detect_csr that looks for the #root / #app div before it measures the body text
detect_csr_root_first(doc) ==
  LET has_useful_meta == Truthy(extract_title(doc)) /\ Truthy(extract_description(doc))
  IN  IF ~doc.has_body THEN [is_csr |-> TRUE, has_useful_meta |-> has_useful_meta]
      ELSE IF Bool(doc.root_div) /\ doc.root_div[1] < CSR_TEXT_ROOT
      THEN [is_csr |-> TRUE, has_useful_meta |-> has_useful_meta]
      ELSE IF doc.body_text_len > CSR_TEXT_SSR
      THEN [is_csr |-> FALSE, has_useful_meta |-> has_useful_meta]
      ELSE IF doc.next_div /\ has_useful_meta
      THEN [is_csr |-> FALSE, has_useful_meta |-> TRUE]
      ELSE IF doc.noscript /\ doc.body_text_len < CSR_TEXT_NOSCRIPT
      THEN [is_csr |-> TRUE, has_useful_meta |-> has_useful_meta]
      ELSE IF doc.non_script_children <= 1 /\ doc.body_text_len < CSR_TEXT_EMPTY
      THEN [is_csr |-> TRUE, has_useful_meta |-> has_useful_meta]
      ELSE [is_csr |-> FALSE, has_useful_meta |-> has_useful_meta]

detect_csr(doc) ==
  LET has_useful_meta == Truthy(extract_title(doc)) /\ Truthy(extract_description(doc))
  IN  IF ~doc.has_body THEN [is_csr |-> TRUE, has_useful_meta |-> has_useful_meta]
      ELSE IF doc.body_text_len > CSR_TEXT_SSR
      THEN [is_csr |-> FALSE, has_useful_meta |-> has_useful_meta]
      ELSE IF doc.next_div /\ has_useful_meta
      THEN [is_csr |-> FALSE, has_useful_meta |-> TRUE]
      ELSE IF Bool(doc.root_div) /\ doc.root_div[1] < CSR_TEXT_ROOT
      THEN [is_csr |-> TRUE, has_useful_meta |-> has_useful_meta]
      ELSE IF doc.noscript /\ doc.body_text_len < CSR_TEXT_NOSCRIPT
      THEN [is_csr |-> TRUE, has_useful_meta |-> has_useful_meta]
      ELSE IF doc.non_script_children <= 1 /\ doc.body_text_len < CSR_TEXT_EMPTY
      THEN [is_csr |-> TRUE, has_useful_meta |-> has_useful_meta]
      ELSE [is_csr |-> FALSE, has_useful_meta |-> has_useful_meta]

(***************************************************************************)
(* ExtractedPage (apps/core/models.py).  The og_* fields are copied from   *)
(* the document and read by nothing in the pipeline; they are left out.    *)
(***************************************************************************)
ExtractedPage(url, title, description, content_text, is_js_rendered, fetch_status, error) ==
  [url |-> url, title |-> title, description |-> description,
   content_text |-> content_text, is_js_rendered |-> is_js_rendered,
   fetch_status |-> fetch_status, error |-> error]

\* ExtractedPage(url=..., fetch_status=..., error=...): the other fields
\* keep their defaults.
ErrorPage(url, fetch_status, error) ==
  ExtractedPage(url, None, None, None, FALSE, fetch_status, Some(error))

\* MetaExtractor.extract that leaves is_js_rendered at its default
MetaExtract_csr_dropped(url, doc) ==
  ExtractedPage(url, extract_title(doc), extract_description(doc), None, FALSE, 200, None)

\* MetaExtractor.extract; fetch_status keeps its default of 200.
MetaExtract(url, doc) ==
  ExtractedPage(url, extract_title(doc), extract_description(doc), None,
                detect_csr(doc).is_csr, 200, None)

\* ContentExtractor.extract
ContentExtract(doc) == doc.content

Return(v) == [kind |-> "return", value |-> v, exc |-> ""]
Raise(e) == [kind |-> "raise", value |-> ErrorPage("", 0, ""), exc |-> e]
Pending == [kind |-> "pending", value |-> ErrorPage("", 0, ""), exc |-> ""]

(***************************************************************************)
(* What the HTTP client can answer: it raises (connection error, timeout), *)
(* or it returns a response with a status, a content type and a body.      *)
(***************************************************************************)
NoDoc == Doc(None, None, None, None, None, FALSE, 0, FALSE, None, FALSE, 0, <<>>)
HttpRaises(e) == [raises |-> TRUE, exc |-> e, status_code |-> 0, content_type |-> "", doc |-> NoDoc]
HttpResponse(status_code, content_type, doc) ==
  [raises |-> FALSE, exc |-> "", status_code |-> status_code,
   content_type |-> content_type, doc |-> doc]

\* "text/html" in content_type
IsHtml(content_type) == content_type \in {"text/html", "text/html; charset=utf-8"}

\* SmartPageFetcher._http_fetch_and_extract, without its try/except.
http_fetch_and_extract_body(url, response) ==
  IF response.raises THEN Raise(response.exc)
  ELSE IF ~IsHtml(response.content_type)
  THEN Return(ErrorPage(url, response.status_code,
                        "Non-HTML content type: " \o response.content_type))
  ELSE IF response.status_code >= 400
  THEN Return(ErrorPage(url, response.status_code,
                        "HTTP " \o ToString(response.status_code)))
  ELSE LET extracted == [MetaExtract(url, response.doc)
                           EXCEPT !.fetch_status = response.status_code]
           content_text == ContentExtract(response.doc)
       IN  IF is_soft_404(extracted)
           THEN Return(ErrorPage(url, response.status_code,
                                 "Soft 404: page content indicates an error page"))
           ELSE IF Len(content_text) > 0
           THEN Return([extracted EXCEPT !.content_text = Some(content_text)])
           ELSE Return(extracted)

\* except Exception as exc: the failure becomes the page's error.
http_fetch_and_extract_unguarded(url, response) ==
  http_fetch_and_extract_body(url, response)

http_fetch_and_extract(url, response) ==
  LET out == http_fetch_and_extract_body(url, response)
  IN  IF out.kind = "raise" THEN Return(ErrorPage(url, 0, out.exc)) ELSE out


(***************************************************************************)
(* What the browser can answer.  get_page_content raises when the failure  *)
(* is outside its own try block (new_context, new_page, page.close); it    *)
(* returns a RenderedPage with error set when navigation fails, and a      *)
(* RenderedPage with the rendered document otherwise.                      *)
(***************************************************************************)
NoRenderAnswer == [raises |-> FALSE, exc |-> "", status |-> 0 - 1, error |-> None, doc |-> NoDoc]
RenderRaises(e) == [raises |-> TRUE, exc |-> e, status |-> 0, error |-> None, doc |-> NoDoc]
RenderedPage(doc, status, error) ==
  [raises |-> FALSE, exc |-> "", status |-> status, error |-> error, doc |-> doc]

\* The truth value of an optional Python string: None and "" are false.
TruthyStr(o) == Bool(o) /\ o[1] # ""

\* render_one, from the answer of get_page_content to its return value,
\* without its except clause.
render_one_body(url, rendered) ==
  IF rendered.raises THEN Raise(rendered.exc)
  ELSE IF TruthyStr(rendered.error)
  THEN Return(ErrorPage(url, rendered.status, rendered.error[1]))
  ELSE LET meta == [MetaExtract(url, rendered.doc)
                      EXCEPT !.is_js_rendered = TRUE, !.fetch_status = rendered.status]
           content_text == ContentExtract(rendered.doc)
           extracted == IF Len(content_text) > 0
                        THEN [meta EXCEPT !.content_text = Some(content_text)]
                        ELSE meta
       IN  IF is_soft_404(extracted)
           THEN Return(ErrorPage(url, rendered.status,
                  "Soft 404: rendered page content indicates an error page"))
           ELSE Return(extracted)

render_one(url, rendered) ==
  LET out == render_one_body(url, rendered)
  IN  IF out.kind = "raise" THEN Return(ErrorPage(url, 0, out.exc)) ELSE out

(***************************************************************************)
(* fetch_all, steps 3 and 5.                                               *)
(***************************************************************************)
retry_statuses == {403, 429}

\* needs_browser without the bot-blocking statuses
needs_browser_csr_only(result) ==
  result.is_js_rendered /\ ~TruthyStr(result.error)

needs_browser(result) ==
  (result.is_js_rendered /\ ~TruthyStr(result.error))
    \/ result.fetch_status \in retry_statuses

\* The indices i of rs, in increasing order, with needs_browser(rs[i]).
RECURSIVE CsrIndicesFrom(_, _)
CsrIndicesFrom(rs, i) ==
  IF i > Len(rs) THEN <<>>
  ELSE IF needs_browser(rs[i]) THEN <<i>> \o CsrIndicesFrom(rs, i + 1)
  ELSE CsrIndicesFrom(rs, i + 1)


\* for idx, rendered in zip(csr_indices, rendered_results):
\*     if not rendered.error: results[idx] = rendered
RECURSIVE MergeFrom(_, _, _, _)
MergeFrom(rs, indices, rendered, k) ==
  IF k > Len(indices) \/ k > Len(rendered) THEN rs
  ELSE MergeFrom(IF ~TruthyStr(rendered[k].error)
                 THEN [rs EXCEPT ![indices[k]] = rendered[k]]
                 ELSE rs,
                 indices, rendered, k + 1)

\* The merge with results[k] written where results[csr_indices[k]] is meant.
Merge_by_position(rs, indices, rendered) ==
  MergeFrom(rs, [k \in 1..Len(indices) |-> k], rendered, 1)

Merge(rs, indices, rendered) == MergeFrom(rs, indices, rendered, 1)

\* asyncio.gather(*tasks): the results in the order of the tasks.
GatherResults(outs) == [i \in 1..Len(outs) |-> outs[i].value]

\* _playwright_fetch_batch after gather(..., return_exceptions=True): a task
\* that raised yields an error page built from the exception.
BatchResults(outs, batch) ==
  [j \in 1..Len(outs) |->
     IF outs[j].kind = "raise" THEN ErrorPage(batch[j], 0, outs[j].exc)
     ELSE outs[j].value]


(***************************************************************************)
(* The inputs of the model: page URLs, documents and answers.              *)
(***************************************************************************)
\* The input pages have pairwise distinct URLs: the i-th is PageUrl(i).
PageUrl(i) == "https://a.com/p" \o ToString(i)

DocSSR ==
  Doc(Some(<<" ", "Home", " ">>), None, Some(<<"Welcome">>), None, None,
      TRUE, 250, FALSE, None, FALSE, 3, <<"Hello", " ", "world">>)
DocCSR ==
  Doc(None, None, None, None, None, TRUE, 0, FALSE, Some(0), TRUE, 1, <<>>)
Doc404 ==
  Doc(Some(<<"404", " ", "Not", " ", "Found">>), None, None, None, None,
      TRUE, 250, FALSE, None, FALSE, 3, <<"Oops">>)
Docs ==
  { DocSSR, DocCSR, Doc404,
    Doc(Some(<<"Home">>), None, None, None, None,
        TRUE, 250, FALSE, None, FALSE, 3, <<"Access", " ", "Denied">>) }

(***************************************************************************)
(* The state of one fetch_all call.                                        *)
(***************************************************************************)
VARIABLES
  pc,               \* where fetch_all is: "http", "render", "done", "raised", "cancelled"
  pages,            \* the input list (the URLs of the DiscoveredPages)
  concurrency,      \* self._concurrency
  delay_ms,         \* self._delay_ms
  http_answers,     \* what the site can answer to an HTTP GET
  render_answers,   \* what the browser can answer to a render
  http_pc,          \* per fetch_one task: "wait", "fetch", "sleep", "done"
  http_out,         \* per fetch_one task: its outcome
  http_got,         \* per fetch_one task: the answer its GET received (history)
  semaphore,        \* free slots of the HTTP semaphore
  completed,        \* fetch_all's counter
  progress,         \* completed and total of the last on_progress call, if any
  calls,            \* per page: how many on_progress calls were made with its URL
  results,          \* fetch_all's results list
  csr_indices,      \* the indices sent to the render phase
  render_pc,        \* per render_one task: "wait", "launch", "goto", "done"
  render_out,       \* per render_one task: its outcome
  render_got,       \* per render_one task: the answer of the browser (history)
  render_semaphore, \* free slots of the browser semaphore
  render_completed, \* _playwright_fetch_batch's counter
  browser,          \* PlaywrightProvider._browser: 0 is None, b the b-th browser launched
  launched,         \* how many browser processes were launched so far
  closed,           \* the browser processes closed so far
  used              \* the browser processes a render_one task rendered in

fetchVars ==
  <<pc, pages, concurrency, delay_ms, http_answers, render_answers, http_pc, http_out,
    semaphore, completed, progress, calls, results, csr_indices, render_pc, render_out,
    render_semaphore, render_completed, browser, launched, closed, used, http_got,
    render_got>>

(***************************************************************************)
(* The state of one LinkCrawler.crawl call.                                *)
(***************************************************************************)
VARIABLES
  crawl_pc,         \* where crawl is: "idle" (not called), "loop", "done"
  start_url,        \* the start_url argument
  disallowed,       \* the disallowed_paths argument
  max_urls,         \* self._config.max_urls
  max_depth,        \* self._config.max_depth
  browser_config,   \* whether the crawler was given a browser_config
  queue,            \* the deque of (url, depth)
  visited,          \* the set of normalized URLs seen by the loop
  discovered,       \* the list of DiscoveredPages
  fetched,          \* the (url, depth) pairs _extract_links was called with, in order,
                    \* each with what the GET and the render, if one was attempted,
                    \* answered and with the links returned (history)
  dropped           \* the normalized URLs the loop popped again and dropped (history)

crawlVars ==
  <<crawl_pc, start_url, disallowed, max_urls, max_depth, browser_config, queue,
    visited, discovered, fetched, dropped>>

(***************************************************************************)
(* The state of the discovery phase of a job (_discover_pages), of the     *)
(* site's robots.txt and sitemaps, and of the sitemap cache, which outlives *)
(* the job.                                                                *)
(***************************************************************************)
VARIABLES
  disc_pc,          \* where _discover_pages is: "idle" (not called), "robots",
                    \* "sitemap", "crawl", "cap", "done"
  jobs,             \* how many times _discover_pages was called for the base URL
  sitemaps,         \* the site: what a GET of each sitemap URL answers
  cache_on,         \* whether the SitemapParser was given a cache
  cache,            \* the value cached under sitemap:<base_url>, if any
  robots_got,       \* what the GET of /robots.txt answered in this job (history)
  robots_result,    \* the RobotsResult of this job
  sitemap_call,     \* SitemapParser.parse of this job: its result, and what it
                    \* read, tried, fetched and collected (history)
  found_pages       \* the pages _discover_pages returned

discVars ==
  <<disc_pc, jobs, sitemaps, cache_on, cache, robots_got, robots_result, sitemap_call,
    found_pages>>

(***************************************************************************)
(* The state of the rate limiter (the sorted sets it keeps in Redis, and   *)
(* the clock it reads), of the job creation endpoint, and of one job: its  *)
(* row, the generate task that runs it and the event streams that watch it.*)
(***************************************************************************)
VARIABLES
  now,              \* the last reading of time.time()
  redis,            \* per key ratelimit:<identifier>, the scores of its sorted set
                    \* (the member of a score is its string)
  rate_limit,       \* the limit the checks are made with
  rate_window,      \* the window_seconds the checks are made with
  checked,          \* the checks made so far and what they returned (history)
  job_rows,         \* the rows of the jobs table: the ip_address of each
  delayed,          \* how many generate tasks were dispatched
  responses,        \* the responses of POST /api/jobs/ so far (history)
  in_flight,        \* the checks that ran their first pipeline and not yet their second
  job_status,       \* the status column of the job's row
  task_pc,          \* where the generate task of the job is
  stream_pc         \* per event stream of the job, where _stream_events is

rateVars == <<now, redis, rate_limit, rate_window, checked, job_rows, delayed, responses,
              in_flight, job_status, task_pc, stream_pc>>

\* The variables that fetch_all leaves alone, and those that crawl leaves alone.
outsideFetch == <<crawlVars, discVars, rateVars>>
outsideCrawl == <<fetchVars, discVars, rateVars>>

\* No request was made.
RateIdle ==
  /\ now = 0
  /\ redis = <<>>
  /\ rate_limit = 0
  /\ rate_window = 0
  /\ checked = <<>>
  /\ job_rows = <<>>
  /\ delayed = 0
  /\ responses = <<>>
  /\ in_flight = {}
  /\ job_status = "pending"
  /\ task_pc = "queued"
  /\ stream_pc = <<>>

\* _discover_pages is not running.
DiscoverIdle ==
  /\ disc_pc = "idle"
  /\ jobs = 0
  /\ sitemaps = <<>>
  /\ cache_on = FALSE
  /\ cache = <<>>
  /\ robots_got = <<>>
  /\ robots_result = <<>>
  /\ sitemap_call = <<>>
  /\ found_pages = <<>>

CrawlIdle ==
  /\ crawl_pc = "idle"
  /\ start_url = <<>>
  /\ disallowed = <<>>
  /\ max_urls = 0
  /\ max_depth = 0
  /\ browser_config = FALSE
  /\ queue = <<>>
  /\ visited = {}
  /\ discovered = <<>>
  /\ fetched = <<>>
  /\ dropped = {}

N == Len(pages)
K == Len(csr_indices)
\* csr_pages = [pages[i] for i in csr_indices]
csr_pages == [j \in 1..K |-> pages[csr_indices[j]]]

InitFetch(maxPages, concurrencies, delays, httpAnswers, renderAnswers) ==
  /\ pc = "http"
  /\ \E n \in 0..maxPages : pages = [i \in 1..n |-> PageUrl(i)]
  /\ concurrency \in concurrencies
  /\ delay_ms \in delays
  /\ http_answers = httpAnswers
  /\ render_answers = renderAnswers
  /\ http_pc = [i \in 1..Len(pages) |-> "wait"]
  /\ http_out = [i \in 1..Len(pages) |-> Pending]
  /\ http_got = [i \in 1..Len(pages) |->
                   [raises |-> FALSE, exc |-> "", status_code |-> 0, content_type |-> "",
                    doc |-> NoDoc]]
  /\ semaphore = concurrency
  /\ completed = 0
  /\ progress = None
  /\ calls = [i \in 1..Len(pages) |-> 0]
  /\ results = <<>>
  /\ csr_indices = <<>>
  /\ render_pc = <<>>
  /\ render_out = <<>>
  /\ render_got = <<>>
  /\ render_semaphore = 0
  /\ render_completed = 0
  /\ browser = 0
  /\ launched = 0
  /\ closed = {}
  /\ used = {}
  /\ CrawlIdle
  /\ DiscoverIdle
  /\ RateIdle

(***************************************************************************)
(* The HTTP phase: one fetch_one task per page.                            *)
(***************************************************************************)

\* fetch_one up to its first suspension, the GET.
HttpAcquire(i) ==
  /\ pc = "http"
  /\ http_pc[i] = "wait"
  /\ semaphore > 0
  /\ semaphore' = semaphore - 1
  /\ http_pc' = [http_pc EXCEPT ![i] = "fetch"]
  /\ UNCHANGED <<pc, pages, concurrency, delay_ms, http_answers, render_answers, http_out,
                 completed, progress, calls, results, csr_indices, render_pc, render_out,
                 render_semaphore, render_completed, browser, launched, closed, used>>
  /\ UNCHANGED <<http_got, render_got>>
  /\ UNCHANGED outsideFetch

\* The GET answers: extraction, completed += 1, on_progress, and then the
\* delay (a suspension inside the semaphore) or, without delay, the return.
HttpComplete(i) ==
  /\ pc = "http"
  /\ http_pc[i] = "fetch"
  /\ \E response \in http_answers :
       LET out == http_fetch_and_extract(pages[i], response)
       IN  /\ http_out' = [http_out EXCEPT ![i] = out]
           /\ http_got' = [http_got EXCEPT ![i] = response]
           /\ IF out.kind = "raise"
              THEN /\ http_pc' = [http_pc EXCEPT ![i] = "done"]
                   /\ semaphore' = semaphore + 1
                   /\ UNCHANGED <<completed, progress, calls>>
              ELSE /\ completed' = completed + 1
                   /\ progress' = Some([completed |-> completed + 1, total |-> N])
                   /\ calls' = [calls EXCEPT ![i] = @ + 1]
                   /\ IF delay_ms > 0
                      THEN /\ http_pc' = [http_pc EXCEPT ![i] = "sleep"]
                           /\ UNCHANGED semaphore
                      ELSE /\ http_pc' = [http_pc EXCEPT ![i] = "done"]
                           /\ semaphore' = semaphore + 1
  /\ UNCHANGED <<pc, pages, concurrency, delay_ms, http_answers, render_answers,
                 results, csr_indices, render_pc, render_out, render_semaphore,
                 render_completed, browser, launched, closed, used>>
  /\ UNCHANGED render_got
  /\ UNCHANGED outsideFetch

\* asyncio.sleep returns: the task leaves the semaphore and returns.
HttpWake(i) ==
  /\ pc = "http"
  /\ http_pc[i] = "sleep"
  /\ http_pc' = [http_pc EXCEPT ![i] = "done"]
  /\ semaphore' = semaphore + 1
  /\ UNCHANGED <<pc, pages, concurrency, delay_ms, http_answers, render_answers, http_out,
                 completed, progress, calls, results, csr_indices, render_pc, render_out,
                 render_semaphore, render_completed, browser, launched, closed, used>>
  /\ UNCHANGED <<http_got, render_got>>
  /\ UNCHANGED outsideFetch

\* A wait that returns as soon as one task has returned.
GatherReturns_first_completed == \E i \in 1..N : http_pc[i] = "done"

\* await asyncio.gather(*tasks) returns when every task has returned.
GatherReturns == \A i \in 1..N : http_pc[i] = "done"

\* gather returns (or raises what a task raised); steps 3 and 4 up to the
\* creation of the render tasks.
HttpGather ==
  /\ pc = "http"
  /\ GatherReturns
  /\ IF \E i \in 1..N : http_out[i].kind = "raise"
     THEN /\ pc' = "raised"
          /\ UNCHANGED <<results, csr_indices, render_pc, render_out, render_got,
                         render_semaphore, render_completed>>
     ELSE LET rs == GatherResults(http_out)
              indices == CsrIndicesFrom(rs, 1)
          IN  /\ results' = rs
              /\ csr_indices' = indices
              /\ IF Len(indices) = 0
                 THEN /\ pc' = "done"
                      /\ UNCHANGED <<render_pc, render_out, render_got,
                                     render_semaphore, render_completed>>
                 ELSE /\ pc' = "render"
                      /\ render_pc' = [j \in 1..Len(indices) |-> "wait"]
                      /\ render_out' = [j \in 1..Len(indices) |-> Pending]
                      /\ render_got' = [j \in 1..Len(indices) |-> NoRenderAnswer]
                      /\ render_semaphore' = BROWSER_CONCURRENCY
                      /\ render_completed' = completed
  /\ UNCHANGED <<pages, concurrency, delay_ms, http_answers, render_answers, http_pc,
                 http_out, semaphore, completed, progress, calls, browser, launched,
                 closed, used>>
  /\ UNCHANGED http_got
  /\ UNCHANGED outsideFetch


(***************************************************************************)
(* The render phase: _playwright_fetch_batch, one render_one task per page *)
(* of csr_pages, all through one PlaywrightProvider.                       *)
(***************************************************************************)
\* A semaphore that admits one task too many.
RenderCanEnter_off_by_one == render_semaphore >= 0

RenderCanEnter == render_semaphore > 0

\* The end of a render_one that reports progress after a successful render
\* only, not in a finally clause.
RenderFinish_progress_on_success(j, rendered) ==
  /\ render_got' = [render_got EXCEPT ![j] = rendered]
  /\ render_out' = [render_out EXCEPT ![j] = render_one(csr_pages[j], rendered)]
  /\ render_pc' = [render_pc EXCEPT ![j] = "done"]
  /\ render_semaphore' = render_semaphore + 1
  /\ IF rendered.raises \/ Bool(rendered.error)
     THEN UNCHANGED <<render_completed, progress, calls>>
     ELSE /\ render_completed' = render_completed + 1
          /\ progress' = Some([completed |-> render_completed + 1, total |-> N])
          /\ calls' = [calls EXCEPT ![csr_indices[j]] = @ + 1]

\* The end of render_one: the outcome, then the finally clause (completed += 1,
\* on_progress), then the semaphore is left.
RenderFinish(j, rendered) ==
  /\ render_got' = [render_got EXCEPT ![j] = rendered]
  /\ render_out' = [render_out EXCEPT ![j] = render_one(csr_pages[j], rendered)]
  /\ render_pc' = [render_pc EXCEPT ![j] = "done"]
  /\ render_completed' = render_completed + 1
  /\ progress' = Some([completed |-> render_completed + 1, total |-> N])
  /\ calls' = [calls EXCEPT ![csr_indices[j]] = @ + 1]
  /\ render_semaphore' = render_semaphore + 1

\* render_one up to its first suspension: it enters the semaphore and calls
\* get_page_content, _create_context and _ensure_browser, which suspends in
\* async_playwright().start() and then in chromium.launch when it found no
\* browser, and otherwise returns self._browser, in which the page is opened.
\* Nothing that other tasks read changes between the two suspensions of
\* _ensure_browser, which are one step here.
RenderAcquire(j) ==
  /\ pc = "render"
  /\ render_pc[j] = "wait"
  /\ RenderCanEnter
  /\ render_semaphore' = render_semaphore - 1
  /\ IF browser = 0
     THEN /\ render_pc' = [render_pc EXCEPT ![j] = "launch"]
          /\ UNCHANGED used
     ELSE /\ render_pc' = [render_pc EXCEPT ![j] = "goto"]
          /\ used' = used \cup {browser}
  /\ UNCHANGED <<pc, pages, concurrency, delay_ms, http_answers, render_answers, http_pc,
                 http_out, semaphore, completed, progress, calls, results, csr_indices,
                 render_out, render_completed, browser, launched, closed>>
  /\ UNCHANGED <<http_got, render_got>>
  /\ UNCHANGED outsideFetch

\* chromium.launch returns a new browser process: self._browser is set to it,
\* and the task opens its page in the browser it launched.
BrowserLaunched(j) ==
  /\ pc = "render"
  /\ render_pc[j] = "launch"
  /\ launched' = launched + 1
  /\ browser' = launched + 1
  /\ used' = used \cup {launched + 1}
  /\ render_pc' = [render_pc EXCEPT ![j] = "goto"]
  /\ UNCHANGED <<pc, pages, concurrency, delay_ms, http_answers, render_answers, http_pc,
                 http_out, semaphore, completed, progress, calls, results, csr_indices,
                 render_out, render_semaphore, render_completed, closed>>
  /\ UNCHANGED <<http_got, render_got>>
  /\ UNCHANGED outsideFetch

\* start() or chromium.launch raises: the exception leaves get_page_content
\* and is caught by render_one.
BrowserLaunchFails(j) ==
  /\ pc = "render"
  /\ render_pc[j] = "launch"
  /\ RenderFinish(j, RenderRaises("BrowserType.launch: Executable doesn't exist"))
  /\ UNCHANGED <<pc, pages, concurrency, delay_ms, http_answers, render_answers, http_pc,
                 http_out, semaphore, completed, results, csr_indices, browser,
                 launched, closed, used>>
  /\ UNCHANGED http_got
  /\ UNCHANGED outsideFetch

\* The render answers: the rest of get_page_content and of render_one.
RenderComplete(j) ==
  /\ pc = "render"
  /\ render_pc[j] = "goto"
  /\ \E rendered \in render_answers : RenderFinish(j, rendered)
  /\ UNCHANGED <<pc, pages, concurrency, delay_ms, http_answers, render_answers, http_pc,
                 http_out, semaphore, completed, results, csr_indices, browser,
                 launched, closed, used>>
  /\ UNCHANGED http_got
  /\ UNCHANGED outsideFetch

\* gather returns; browser_provider.close(); step 5, the merge; return.
RenderGather ==
  /\ pc = "render"
  /\ \A j \in 1..K : render_pc[j] = "done"
  /\ closed' = closed \cup (IF browser # 0 THEN {browser} ELSE {})
  /\ browser' = 0
  /\ results' = Merge(results, csr_indices, BatchResults(render_out, csr_pages))
  /\ pc' = "done"
  /\ UNCHANGED <<pages, concurrency, delay_ms, http_answers, render_answers, http_pc,
                 http_out, semaphore, completed, progress, calls, csr_indices, render_pc,
                 render_out, render_semaphore, render_completed, launched, used>>
  /\ UNCHANGED <<http_got, render_got>>
  /\ UNCHANGED outsideFetch

\* The task running fetch_all is cancelled, or an exception is thrown into it
\* (the worker's soft time limit): the gather it is suspended in raises, and
\* nothing after the gather runs.
Cancel ==
  /\ pc \in {"http", "render"}
  /\ pc' = "cancelled"
  /\ UNCHANGED <<pages, concurrency, delay_ms, http_answers, render_answers, http_pc,
                 http_out, semaphore, completed, progress, calls, results, csr_indices,
                 render_pc, render_out, render_semaphore, render_completed, browser,
                 launched, closed, used>>
  /\ UNCHANGED <<http_got, render_got>>
  /\ UNCHANGED outsideFetch

NextFetch ==
  \/ \E i \in 1..N : HttpAcquire(i)
  \/ \E i \in 1..N : HttpComplete(i)
  \/ \E i \in 1..N : HttpWake(i)
  \/ HttpGather
  \/ \E j \in 1..K : RenderAcquire(j)
  \/ \E j \in 1..K : BrowserLaunched(j)
  \/ \E j \in 1..K : BrowserLaunchFails(j)
  \/ \E j \in 1..K : RenderComplete(j)
  \/ RenderGather

vars == <<fetchVars, crawlVars, discVars, rateVars>>

\* fetch_all on every answer of the site and of the browser, run to its return.
Init ==
  InitFetch(MaxPages, {MaxConcurrency}, {DEFAULT_DELAY_MS},
            { HttpRaises(""), HttpRaises("connection refused"),
              HttpResponse(200, "application/pdf", NoDoc),
              HttpResponse(403, "text/html", Doc404),
              HttpResponse(404, "text/html", Doc404),
              HttpResponse(429, "text/html", DocSSR) }
              \cup { HttpResponse(200, "text/html; charset=utf-8", d) : d \in Docs },
            { RenderRaises(""), RenderRaises("Target closed"),
              RenderedPage(NoDoc, 0, Some("Timeout 30000ms exceeded.")),
              RenderedPage(NoDoc, 0, Some("")) }
              \cup { RenderedPage(d, 200, None) : d \in Docs })
Next == NextFetch
Spec == Init /\ [][Next]_vars

\* fetch_all on batches larger than the browser pool, for every configured
\* concurrency, with and without delay.
PoolInit ==
  InitFetch(MaxPoolPages, 1..MaxConcurrency, {0, DEFAULT_DELAY_MS},
            { HttpResponse(200, "text/html; charset=utf-8", DocSSR),
              HttpResponse(200, "text/html; charset=utf-8", DocCSR) },
            { RenderedPage(DocSSR, 200, None),
              RenderedPage(NoDoc, 0, Some("Timeout 30000ms exceeded.")) })
PoolSpec == PoolInit /\ [][Next]_vars

CancelSpec == PoolInit /\ [][Next \/ Cancel]_vars


(***************************************************************************)
(* Properties of fetch_all.                                                *)
(***************************************************************************)
IsRendered(i) == \E j \in 1..K : csr_indices[j] = i
TaskOf(i) == CHOOSE j \in 1..K : csr_indices[j] = i

HttpInFlight == {i \in 1..N : http_pc[i] \in {"fetch", "sleep"}}
RenderInFlight == {j \in 1..K : render_pc[j] \in {"launch", "goto"}}

\* A render failed: get_page_content raised, or returned a RenderedPage with
\* error set.
RenderFailed(j) == render_got[j].raises \/ Bool(render_got[j].error)
RenderFailureMessage(j) ==
  IF render_got[j].raises THEN render_got[j].exc ELSE render_got[j].error[1]

\* A render was rejected: render_one returned a page with an error, which the
\* code tests by the truth value of the error string.
RenderRejected(j) == TruthyStr(render_out[j].value.error)

\* The output of a page as a function of the answers that page alone received.
OutputOf(url, response, rendered) ==
  LET fetched_page == http_fetch_and_extract(url, response).value
      rendered_page == render_one(url, rendered).value
  IN  IF needs_browser(fetched_page) /\ ~TruthyStr(rendered_page.error)
      THEN rendered_page
      ELSE fetched_page

EachOutputIsItsOwn ==
  \A i \in 1..N :
    results[i] = OutputOf(pages[i], http_got[i],
                          IF IsRendered(i) THEN render_got[TaskOf(i)] ELSE NoRenderAnswer)

\* C1: whatever the order in which fetches and renders complete, fetch_all
\* returns exactly one ExtractedPage per input page, and the i-th output
\* carries the URL of the i-th input.
C1_OnePerPageInOrder ==
  pc = "done" =>
    /\ Len(results) = Len(pages)
    /\ \A i \in 1..N : results[i].url = pages[i]

C1_Witness ==
  /\ pc = "done"
  /\ N = 2
  /\ csr_indices = <<2>>
  /\ IsNone(render_out[1].value.error)
  /\ results[2] = render_out[1].value

C3_PoolsBounded ==
  /\ Cardinality(HttpInFlight) <= concurrency
  /\ Cardinality(RenderInFlight) <= BROWSER_CONCURRENCY

C3_Witness ==
  /\ pc = "render"
  /\ Cardinality(RenderInFlight) = BROWSER_CONCURRENCY
  /\ \E j \in 1..K : render_pc[j] = "wait"

\* C4: within one fetch_all batch at most one browser process is launched and
\* every render uses that one browser.
C4_SingleBrowser ==
  /\ launched <= 1
  /\ Cardinality(used) <= 1

\* C5: when fetch_all has ended after the render phase started, by return, by
\* an exception or by cancellation, every browser process launched for the
\* batch has been closed.
C5_BrowsersClosed ==
  pc \in {"done", "raised", "cancelled"} => \A b \in 1..launched : b \in closed

\* The title that MetaExtractor extracts contains a soft-404 signal phrase.
TitleSignals(doc) ==
  LET title == Lower(OrEmpty(extract_title(doc)))
  IN  \E signal \in SOFT_404_SIGNALS : Contains(title, signal)

\* C6: a 200 response with an HTML content type whose extracted title contains
\* a soft-404 signal phrase yields an output with error set and no
\* content_text, never a successful extraction.
C6_SoftNotFoundRejected ==
  pc = "done" =>
    \A i \in 1..N :
      ( /\ ~http_got[i].raises
        /\ http_got[i].status_code = 200
        /\ IsHtml(http_got[i].content_type)
        /\ TitleSignals(http_got[i].doc) )
      => /\ TruthyStr(results[i].error)
         /\ IsNone(results[i].content_text)
         /\ IsNone(results[i].title)

C6_Witness ==
  /\ pc = "done"
  /\ \E i \in 1..N : http_got[i] = HttpResponse(200, "text/html; charset=utf-8", Doc404)

\* A render was rejected: it failed, or render_one returned a page with an
\* error set (the soft-404 check on the rendered page included).
RenderWasRejected(j) == RenderFailed(j) \/ Bool(render_out[j].value.error)

\* C7: after the merge, a page whose render succeeded and passed the soft-404
\* check has the rendered page, with is_js_rendered set, as its output; a page
\* whose render was rejected keeps its HTTP-phase result when that result
\* carried no error; the output of a page that was not rendered is its
\* HTTP-phase result.
C7_Merge ==
  pc = "done" =>
    /\ \A j \in 1..K :
         ~RenderWasRejected(j) =>
           /\ results[csr_indices[j]] = render_out[j].value
           /\ results[csr_indices[j]].is_js_rendered
    /\ \A j \in 1..K :
         (RenderWasRejected(j) /\ IsNone(http_out[csr_indices[j]].value.error)) =>
           results[csr_indices[j]] = http_out[csr_indices[j]].value
    /\ \A i \in 1..N : ~IsRendered(i) => results[i] = http_out[i].value

\* C8: a page sent to the render phase for its HTTP status 403 or 429 whose
\* render is rejected ends with the render rejection's error as its error, and
\* as many outputs carry a render error as renders of such pages failed.
BlockedAndRejected ==
  {j \in 1..K : http_out[csr_indices[j]].value.fetch_status \in retry_statuses
                  /\ RenderRejected(j)}
RenderErrors == {render_out[j].value.error : j \in {t \in 1..K : RenderRejected(t)}}
C8_RenderErrorReported ==
  pc = "done" =>
    /\ \A j \in BlockedAndRejected :
         results[csr_indices[j]].error = render_out[j].value.error
    /\ Cardinality({i \in 1..N : results[i].error \in RenderErrors})
         = Cardinality(BlockedAndRejected)


(***************************************************************************)
(* URLs, as LinkCrawler reads them.  A URL string is a sequence of tokens: *)
(* the scheme, "://" (or ":" when no authority follows), the labels of the *)
(* host, and then "/", path words, extensions such as ".pdf", "?", a       *)
(* query, "#" and a fragment.                                              *)
(***************************************************************************)
\* The index of the first token of s at or after first that is in set,
\* Len(s) + 1 if none is.
Find(s, first, set) ==
  LET hits == {k \in first..Len(s) : s[k] \in set}
  IN  IF hits = {} THEN Len(s) + 1 ELSE CHOOSE k \in hits : \A m \in hits : k <= m

\* urllib.parse.urlparse: the scheme, then the authority up to the first of
\* "/", "?" and "#", the fragment after the first "#" and the query between
\* the first "?" before it and that "#".
urlparse(url) ==
  LET hasScheme == Len(url) >= 2 /\ url[2] \in {"://", ":"} /\ url[1] # ""
      first == IF hasScheme THEN 3 ELSE 1
      f == Find(url, first, {"#"})
      q == Find(url, first, {"?", "#"})
      p == IF hasScheme /\ url[2] = "://" THEN Find(url, first, {"/", "?", "#"}) ELSE first
  IN  [ scheme |-> IF hasScheme THEN url[1] ELSE "",
        netloc |-> SubSeq(url, first, p - 1),
        path |-> SubSeq(url, p, q - 1),
        query |-> SubSeq(url, q + 1, f - 1),
        fragment |-> SubSeq(url, f + 1, Len(url)) ]

\* urllib.parse.urljoin, for an href that is absolute or starts with "/".
urljoin(base_url, href) ==
  IF urlparse(href).scheme # "" THEN href
  ELSE <<urlparse(base_url).scheme, "://">> \o urlparse(base_url).netloc \o href

\* path.rstrip("/")
RECURSIVE RStripSlash(_)
RStripSlash(path) ==
  IF Len(path) > 0 /\ path[Len(path)] = "/"
  THEN RStripSlash(SubSeq(path, 1, Len(path) - 1))
  ELSE path

normalize_url(url) ==
  LET parsed == urlparse(url)
      path == IF RStripSlash(parsed.path) = <<>> THEN <<"/">> ELSE RStripSlash(parsed.path)
      normalized == <<parsed.scheme, "://">> \o parsed.netloc \o path
  IN  IF parsed.query # <<>> THEN normalized \o <<"?">> \o parsed.query ELSE normalized

\* domain.removeprefix("www.")
strip_www(domain) ==
  IF Len(domain) > 0 /\ domain[1] = "www." THEN Tail(domain) ELSE domain

same_site(netloc, base_domain) == strip_www(netloc) = strip_www(base_domain)

\* re.IGNORECASE, on the tokens that occur in upper case.
IgnoreCase(t) ==
  CASE t = ".PDF" -> ".pdf"
    [] t = "Admin" -> "admin"
    [] OTHER -> t

\* SKIP_EXTENSIONS.search(path): the path ends with one of the extensions.
SKIP_EXTENSIONS ==
  { ".jpg", ".jpeg", ".png", ".gif", ".svg", ".webp", ".ico", ".pdf", ".zip", ".tar",
    ".gz", ".mp3", ".mp4", ".avi", ".mov", ".woff", ".woff2", ".ttf", ".eot", ".css",
    ".js", ".xml", ".rss", ".atom" }
SkipExtensionsSearch(path) ==
  Len(path) > 0 /\ IgnoreCase(path[Len(path)]) \in SKIP_EXTENSIONS

\* SKIP_PATH_PATTERNS.search(path): one of the words occurs anywhere in the
\* path, inside a longer word included ("cartoon" holds "cart").
SKIP_PATH_PATTERNS ==
  { "login", "signin", "signup", "register", "logout", "admin", "cart", "checkout",
    "account", "password", "oauth" }
SkipPathPatternsSearch(path) ==
  \E k \in 1..Len(path) :
    \/ IgnoreCase(path[k]) \in SKIP_PATH_PATTERNS
    \/ path[k] = "cartoon"

\* str.startswith
StartsWith(s, prefix) ==
  Len(prefix) <= Len(s) /\ SubSeq(s, 1, Len(prefix)) = prefix

\* _should_skip with the off-site test only.
should_skip_off_site_only(url, base_domain, disallowed_paths) ==
  ~same_site(urlparse(url).netloc, base_domain)

should_skip(url, base_domain, disallowed_paths) ==
  LET parsed == urlparse(url)
  IN  \/ ~same_site(parsed.netloc, base_domain)
      \/ SkipExtensionsSearch(parsed.path)
      \/ SkipPathPatternsSearch(parsed.path)
      \/ \E k \in 1..Len(disallowed_paths) : StartsWith(parsed.path, disallowed_paths[k])

(***************************************************************************)
(* The HTML a crawled page answers with, as far as the crawler reads it:   *)
(* whether it is the empty string, whether it has a <body>, the hrefs of   *)
(* its <a> tags in document order, and the length of the body's text.      *)
(***************************************************************************)
Html(body, anchors, text_len) ==
  [empty |-> FALSE, body |-> body, anchors |-> anchors, text_len |-> text_len]
EmptyHtml == [empty |-> TRUE, body |-> FALSE, anchors |-> <<>>, text_len |-> 0]

\* `if rendered`, for a str | None
TruthyHtml(o) == Bool(o) /\ ~o[1].empty

CSR_MAX_LINKS == 3
CSR_MAX_TEXT == 500

looks_like_csr(html) ==
  IF ~html.body THEN FALSE
  ELSE Len(html.anchors) < CSR_MAX_LINKS /\ html.text_len < CSR_MAX_TEXT

RECURSIVE ParseLinksFrom(_, _, _)
ParseLinksFrom(anchors, base_url, base_domain) ==
  IF anchors = <<>> THEN <<>>
  ELSE LET absolute == urljoin(base_url, Head(anchors))
           parsed == urlparse(absolute)
           rest == ParseLinksFrom(Tail(anchors), base_url, base_domain)
       IN  IF /\ same_site(parsed.netloc, base_domain)
              /\ parsed.scheme \in {"http", "https"}
              /\ ~SkipExtensionsSearch(parsed.path)
           THEN <<normalize_url(absolute)>> \o rest
           ELSE rest

parse_links(html, base_url, base_domain) ==
  ParseLinksFrom(html.anchors, base_url, base_domain)

\* What the site answers to get_text, and what the browser answers to
\* get_page_content.
CrawlRenderRaises == [raises |-> TRUE, error |-> None, html |-> EmptyHtml]
CrawlRendered(html, error) == [raises |-> FALSE, error |-> error, html |-> html]

\* _playwright_fetch: None without a browser_config, on an exception and on
\* a result with an error, else result.html.
playwright_fetch(rendered, browserConfig) ==
  IF ~browserConfig THEN None
  ELSE IF rendered.raises THEN None
  ELSE IF TruthyStr(rendered.error) THEN None
  ELSE Some(rendered.html)

\* _fetch_html that parses the HTTP text whenever there is one
fetch_html_http_first(http, rendered, browserConfig) ==
  IF ~http.raises THEN Some(http.text)
  ELSE IF TruthyHtml(playwright_fetch(rendered, browserConfig))
       THEN playwright_fetch(rendered, browserConfig)
       ELSE None

\* _fetch_html: the HTML to parse, None when every method failed.
fetch_html(http, rendered, browserConfig) ==
  IF ~http.raises
  THEN IF looks_like_csr(http.text)
       THEN IF TruthyHtml(playwright_fetch(rendered, browserConfig))
            THEN playwright_fetch(rendered, browserConfig)
            ELSE Some(http.text)
       ELSE Some(http.text)
  ELSE IF TruthyHtml(playwright_fetch(rendered, browserConfig))
       THEN playwright_fetch(rendered, browserConfig)
       ELSE None

\* Whether _fetch_html gets as far as get_page_content: it calls
\* _playwright_fetch when get_text raised or the text looks CSR, and
\* _playwright_fetch returns at once without a browser_config.
RenderAttempted(http, browserConfig) ==
  browserConfig /\ (http.raises \/ looks_like_csr(http.text))

extract_links(url, base_domain, http, rendered, browserConfig) ==
  LET html == fetch_html(http, rendered, browserConfig)
  IN  IF IsNone(html) THEN <<>> ELSE parse_links(html[1], url, base_domain)

DiscoveredPage(url, source, depth) == [url |-> url, source |-> source, depth |-> depth]

(***************************************************************************)
(* The sites crawl is run on.                                              *)
(***************************************************************************)
MaxUrls == 3
MaxDepth == 2


\* The pages of the site: links that are relative, absolute, with and without
\* www., with fragments, a query, trailing slashes, asset extensions in both
\* cases, auth and disallowed paths, and off-site, mailto: and ftp: links.
HtmlHome ==
  Html(TRUE, << <<"/">>, <<"/", "login">>,
               <<"/", "docs", "/">>,
               <<"https", "://", "www.", "a.com", "/", "docs", "#", "top">>,
               <<"https", "://", "b.com", "/">> >>, 800)
HtmlDocs ==
  Html(TRUE, << <<"/", "files", "/", "report", ".pdf", "/">>,
               <<"/", "docs", "/", "guide">>, <<"/", "report", ".PDF">>,
               <<"/", "private", "/", "k">>,
               <<"/", "docs", "/", "api", "?", "v=2">> >>, 800)

\* What get_text answers: it raises, or it returns one of the pages, among
\* them a page of few links and a page without content.
CrawlHttpAnswers ==
  {[raises |-> TRUE, text |-> EmptyHtml]}
    \cup {[raises |-> FALSE, text |-> html] :
            html \in { HtmlHome, HtmlDocs,
                       Html(TRUE, << <<"/", "blog", "/", "/">>, <<"/">>,
                                    <<"mailto", ":", "x@a.com">>,
                                    <<"ftp", "://", "a.com", "/", "pub">>,
                                    <<"/", "blog", "/", "/">> >>, 100),
                       Html(TRUE, << <<"/", "docs", "/", "guide">>,
                                    <<"/", "blog", "/", "/">> >>, 100),
                       Html(TRUE, <<>>, 0) }}

\* fetch_all is not running.
FetchIdle ==
  /\ pc = "idle"
  /\ pages = <<>>
  /\ concurrency = 0
  /\ delay_ms = 0
  /\ http_answers = {}
  /\ render_answers = {}
  /\ http_pc = <<>>
  /\ http_out = <<>>
  /\ http_got = <<>>
  /\ semaphore = 0
  /\ completed = 0
  /\ progress = None
  /\ calls = <<>>
  /\ results = <<>>
  /\ csr_indices = <<>>
  /\ render_pc = <<>>
  /\ render_out = <<>>
  /\ render_got = <<>>
  /\ render_semaphore = 0
  /\ render_completed = 0
  /\ browser = 0
  /\ launched = 0
  /\ closed = {}
  /\ used = {}

(***************************************************************************)
(* LinkCrawler.crawl.                                                      *)
(***************************************************************************)
\* crawl up to its loop: the queue holds the start URL at depth 0.
CrawlInit ==
  /\ crawl_pc = "loop"
  /\ start_url \in ({ <<"https", "://", "a.com">>,
                      <<"https", "://", "www.", "a.com", "/", "docs", "/", "#", "top">>,
                      <<"https", "://", "a.com", "/", "Admin">> })
  /\ disallowed \in ({ <<>>, << <<"/", "private">> >> })
  /\ max_urls \in 1..MaxUrls
  /\ max_depth \in 1..MaxDepth
  /\ browser_config \in BOOLEAN
  /\ queue = << [url |-> start_url, depth |-> 0] >>
  /\ visited = {}
  /\ discovered = <<>>
  /\ fetched = <<>>
  /\ dropped = {}
  /\ FetchIdle
  /\ DiscoverIdle
  /\ RateIdle

\* The loop condition with the cap tested one page too late.
CrawlLoopCondition_inclusive == queue # <<>> /\ Len(discovered) <= max_urls

\* while queue and len(discovered) < self._config.max_urls
CrawlLoopCondition == queue # <<>> /\ Len(discovered) < max_urls

\* The expansion test with the depth limit included.
ShouldExpand_inclusive(depth) == depth <= max_depth

\* if depth < self._config.max_depth
ShouldExpand(depth) == depth < max_depth

\* [(child_url, depth + 1) for child_url in child_urls if child_url not in visited]
RECURSIVE Children(_, _, _)
Children(child_urls, seen, depth) ==
  IF child_urls = <<>> THEN <<>>
  ELSE IF Head(child_urls) \notin seen
       THEN <<[url |-> Head(child_urls), depth |-> depth]>>
              \o Children(Tail(child_urls), seen, depth)
       ELSE Children(Tail(child_urls), seen, depth)

\* The loop with its `if normalized in visited: continue` left out.
AlreadyVisited_never(normalized) == FALSE

\* if normalized in visited
AlreadyVisited(normalized) == normalized \in visited

\* The loop reading queue[0] where it pops it.
PopLeft_peek(q) == q

\* queue.popleft(): what is left of the queue
PopLeft(q) == Tail(q)

\* One iteration of the loop, the fetch of the page's links included.  The
\* locals of the iteration are bound once, as the assignments of the loop do.
CrawlIteration ==
  /\ crawl_pc = "loop"
  /\ CrawlLoopCondition
  /\ \E depth \in {Head(queue).depth},
        normalized \in {normalize_url(Head(queue).url)},
        base_domain \in {urlparse(start_url).netloc} :
       IF AlreadyVisited(normalized)
       THEN /\ queue' = PopLeft(queue)
            /\ dropped' = dropped \cup {normalized}
            /\ UNCHANGED <<visited, discovered, fetched>>
       ELSE /\ visited' = visited \cup {normalized}
            /\ dropped' = dropped
            /\ IF should_skip(normalized, base_domain, disallowed)
               THEN /\ queue' = PopLeft(queue)
                    /\ UNCHANGED <<discovered, fetched>>
               ELSE /\ discovered' =
                         Append(discovered, DiscoveredPage(normalized, "crawl", depth))
                    /\ IF ShouldExpand(depth)
                       THEN \E http \in CrawlHttpAnswers :
                            \E rendered \in
                                 IF RenderAttempted(http, browser_config)
                                 THEN { CrawlRenderRaises,
                                        CrawlRendered(EmptyHtml, Some("Timeout 30000ms exceeded.")),
                                        CrawlRendered(EmptyHtml, None),
                                        CrawlRendered(HtmlDocs, None) }
                                 ELSE {CrawlRenderRaises} :
                              \E child_urls \in {extract_links(normalized, base_domain, http,
                                                               rendered, browser_config)} :
                                /\ queue' = PopLeft(queue)
                                     \o Children(child_urls, visited \cup {normalized},
                                                 depth + 1)
                                /\ fetched' =
                                     Append(fetched,
                                       [url |-> normalized, depth |-> depth, http |-> http,
                                        rendered |-> IF RenderAttempted(http, browser_config)
                                                     THEN Some(rendered) ELSE None,
                                        links |-> child_urls])
                       ELSE /\ queue' = PopLeft(queue)
                            /\ UNCHANGED fetched
  /\ UNCHANGED <<crawl_pc, start_url, disallowed, max_urls, max_depth, browser_config>>
  /\ UNCHANGED outsideCrawl

\* The loop condition is false: return discovered.
CrawlReturn ==
  /\ crawl_pc = "loop"
  /\ ~CrawlLoopCondition
  /\ crawl_pc' = "done"
  /\ UNCHANGED <<start_url, disallowed, max_urls, max_depth, browser_config, queue,
                 visited, discovered, fetched, dropped>>
  /\ UNCHANGED outsideCrawl

CrawlNext ==
  \/ CrawlIteration
  \/ CrawlReturn

\* crawl on every site, from its call to its return.
CrawlSpec == CrawlInit /\ [][CrawlNext]_vars

\* crawl is a single coroutine that is resumed whenever its await is answered:
\* it always takes its next step.
CrawlLiveSpec == CrawlSpec /\ WF_vars(CrawlNext)

(***************************************************************************)
(* Properties of crawl.                                                    *)
(***************************************************************************)
\* C9: crawl returns at most max_urls discovered pages, whatever the links
\* of the site are.
C9_AtMostMaxUrls ==
  crawl_pc = "done" => Len(discovered) <= max_urls

\* crawl returned because the cap was reached: max_urls pages, and URLs left
\* in the queue.
C9_Witness ==
  /\ crawl_pc = "done"
  /\ max_urls > 1
  /\ Len(discovered) = max_urls
  /\ queue # <<>>

\* C10: every page crawl returns has depth at most max_depth, and a page is
\* fetched for link extraction only when its depth is strictly below max_depth.
C10_DepthBounded ==
  /\ \A k \in 1..Len(discovered) : discovered[k].depth <= max_depth
  /\ \A k \in 1..Len(fetched) : fetched[k].depth < max_depth

\* crawl returned a page at depth max_depth, found through a page it fetched,
\* and did not fetch it.
C10_Witness ==
  /\ crawl_pc = "done"
  /\ \E k \in 1..Len(discovered) :
       /\ discovered[k].depth = max_depth
       /\ \A m \in 1..Len(fetched) : fetched[m].url # discovered[k].url
  /\ \E m \in 1..Len(fetched) : fetched[m].depth = max_depth - 1

\* C11: crawl never records or expands the same normalized URL twice: the URLs
\* of the discovered pages are pairwise distinct, and so are the URLs fetched
\* for link extraction.
C11_NoUrlTwice ==
  /\ \A k, m \in 1..Len(discovered) : k # m => discovered[k].url # discovered[m].url
  /\ \A k, m \in 1..Len(fetched) : k # m => fetched[k].url # fetched[m].url

\* crawl returned after it met a URL it had already recorded and expanded
\* (a cycle or a link repeated), with several pages expanded.
C11_Witness ==
  /\ crawl_pc = "done"
  /\ Len(fetched) >= 2
  /\ \E k \in 1..Len(fetched) : fetched[k].url \in dropped

\* A URL that the skip rules exclude: off-site, an asset extension, an
\* account/auth/cart path, or a path under a disallowed prefix.
Excluded(url) ==
  LET parsed == urlparse(url)
  IN  \/ strip_www(parsed.netloc) # strip_www(urlparse(start_url).netloc)
      \/ SkipExtensionsSearch(parsed.path)
      \/ SkipPathPatternsSearch(parsed.path)
      \/ \E k \in 1..Len(disallowed) : StartsWith(parsed.path, disallowed[k])

\* C12: no page crawl records is off-site (www. ignored), has an asset
\* extension, matches an account/auth/cart path pattern or lies under a
\* disallowed prefix, and no such URL is fetched for link extraction, the start
\* URL included.
C12_ExcludedNeverRecorded ==
  /\ \A k \in 1..Len(discovered) : ~Excluded(discovered[k].url)
  /\ \A k \in 1..Len(fetched) : ~Excluded(fetched[k].url)

\* crawl returned pages after it met a URL with an asset extension and a URL
\* under a disallowed prefix, and recorded neither.
C12_Witness ==
  /\ crawl_pc = "done"
  /\ Len(discovered) >= 2
  /\ \E u \in visited : SkipExtensionsSearch(urlparse(u).path)
  /\ \E u \in visited :
       \E k \in 1..Len(disallowed) : StartsWith(urlparse(u).path, disallowed[k])

\* C13: crawl terminates on every site, and it returns as soon as the queue is
\* empty or max_urls pages are discovered: in such a state its only step is
\* the return.
C13_Terminates ==
  /\ <>(crawl_pc = "done")
  /\ [][(crawl_pc = "loop" /\ (queue = <<>> \/ Len(discovered) >= max_urls))
          => crawl_pc' = "done"]_vars

\* crawl returned with an empty queue on a site whose links form a cycle.
C13_Witness ==
  /\ crawl_pc = "done"
  /\ queue = <<>>
  /\ dropped # {}
  /\ Len(fetched) >= 2

(***************************************************************************)
(* robots.txt, as RobotsParser reads it: a sequence of lines, each the     *)
(* directive name as written (" " for a blank line, "#" for a comment) and *)
(* its stripped value, if anything follows the colon.                      *)
(***************************************************************************)
Line(name, value) == [name |-> name, value |-> value]

\* re.IGNORECASE, on the directive names and agent names that occur.
IgnoreCaseName(t) ==
  CASE t = "SITEMAP" -> "sitemap"
    [] t = "Sitemap" -> "sitemap"
    [] t = "User-agent" -> "user-agent"
    [] t = "User-Agent" -> "user-agent"
    [] t = "Disallow" -> "disallow"
    [] t = "DISALLOW" -> "disallow"
    [] t = "Crawl-delay" -> "crawl-delay"
    [] t = "SpongeBot" -> "spongebot"
    [] t = "Googlebot" -> "googlebot"
    [] OTHER -> t

RobotsResult(sitemap_urls, crawl_delay, disallowed_paths) ==
  [sitemap_urls |-> sitemap_urls, crawl_delay |-> crawl_delay,
   disallowed_paths |-> disallowed_paths]

\* _parse_content from line k on, with the values of its locals before line k.
RECURSIVE ParseContentFrom(_, _, _, _)
ParseContentFrom(content, k, result, applies_to_us) ==
  IF k > Len(content) THEN result
  ELSE LET name == IgnoreCaseName(content[k].name)
           value == content[k].value
       IN  IF name \in {" ", "#"}
           THEN ParseContentFrom(content, k + 1, result, applies_to_us)
           ELSE IF name = "sitemap" /\ Bool(value)
           THEN ParseContentFrom(content, k + 1,
                  [result EXCEPT !.sitemap_urls = Append(@, value[1])], applies_to_us)
           ELSE IF name = "user-agent" /\ Bool(value)
           THEN ParseContentFrom(content, k + 1, result,
                                 IgnoreCaseName(value[1]) \in {"*", "spongebot"})
           ELSE IF ~applies_to_us
           THEN ParseContentFrom(content, k + 1, result, applies_to_us)
           ELSE IF name = "disallow"
           THEN ParseContentFrom(content, k + 1,
                  IF Bool(value)
                  THEN [result EXCEPT !.disallowed_paths = Append(@, value[1])]
                  ELSE result, applies_to_us)
           ELSE IF /\ name = "crawl-delay" /\ Bool(value) /\ value[1] \in {"1", "2.5"}
                   /\ IsNone(result.crawl_delay)
           THEN ParseContentFrom(content, k + 1,
                  [result EXCEPT !.crawl_delay = value], applies_to_us)
           ELSE ParseContentFrom(content, k + 1, result, applies_to_us)

\* Whether line k stands in a block that applies to this crawler: the most
\* recent User-agent line before it names * or spongebot.
AppliesAt(content, k) ==
  LET agents == {j \in 1..(k - 1) : /\ IgnoreCaseName(content[j].name) = "user-agent"
                                    /\ Bool(content[j].value)}
  IN  /\ agents # {}
      /\ LET last == CHOOSE j \in agents : \A m \in agents : m <= j
         IN  IgnoreCaseName(content[last].value[1]) \in {"*", "spongebot"}

\* _parse_content that tests applies_to_us before it looks for a Sitemap line
parse_content_sitemaps_per_agent(content) ==
  LET kept == {k \in 1..Len(content) :
                 IgnoreCaseName(content[k].name) = "sitemap" => AppliesAt(content, k)}
      keep[k \in 0..Len(content)] ==
        IF k = 0 THEN <<>>
        ELSE IF k \in kept THEN Append(keep[k - 1], content[k]) ELSE keep[k - 1]
  IN  ParseContentFrom(keep[Len(content)], 1, RobotsResult(<<>>, None, <<>>), FALSE)

\* _parse_content that starts with applies_to_us = True
parse_content_applies_from_start(content) ==
  ParseContentFrom(content, 1, RobotsResult(<<>>, None, <<>>), TRUE)

parse_content(content) ==
  ParseContentFrom(content, 1, RobotsResult(<<>>, None, <<>>), FALSE)

\* RobotsParser.parse, on what get_text_safe answered (None: the fetch failed).
robots_parse(text) ==
  IF IsNone(text) THEN RobotsResult(<<>>, None, <<>>) ELSE parse_content(text[1])

(***************************************************************************)
(* Sitemaps, as SitemapParser reads them.  A sitemap URL is a name; a GET  *)
(* of it fails (get_text_safe returns None) or answers a <urlset> of <url> *)
(* tags or a <sitemapindex> of <sitemap> tags.  A tag's <loc> and          *)
(* <priority> are optional.                                                *)
(***************************************************************************)
MAX_SITEMAP_ENTRIES == 500
MAX_RECURSION_DEPTH == 3

FetchFails == [kind |-> "none", tags |-> <<>>]
Urlset(tags) == [kind |-> "urlset", tags |-> tags]
SitemapIndex(tags) == [kind |-> "sitemapindex", tags |-> tags]
Tag(loc, priority) == [loc |-> loc, priority |-> priority]
SitemapEntry(url, priority) == [url |-> url, priority |-> priority]
SitemapResult(entries, source) == [entries |-> entries, source |-> source]

\* _parse_urlset: the tags with an http(s) <loc>, in document order, with the
\* priority that float() accepts.
parse_urlset(tags) ==
  LET kept == SelectSeq(tags, LAMBDA t :
                /\ Bool(t.loc)
                /\ Len(t.loc[1]) >= 2
                /\ t.loc[1][1] \in {"http", "https"}
                /\ t.loc[1][2] = "://")
  IN  [ k \in 1..Len(kept) |->
          SitemapEntry(kept[k].loc[1],
                       IF Bool(kept[k].priority) /\ kept[k].priority[1] \in {"0.5", "0.8"}
                       THEN kept[k].priority ELSE None) ]

\* What a call collects: its entries and, in order, the GETs it made.
Collected(entries, gets) == [entries |-> entries, gets |-> gets]

\* _parse_sitemap, and _parse_index from its tag k on with the entries and the
\* GETs collected before that tag.  The first definition is _parse_sitemap
\* with its depth test one level late.
RECURSIVE parse_sitemap(_, _, _), parse_index(_, _, _, _, _)
parse_sitemap_limit_late(site, url, depth) ==
  IF depth > MAX_RECURSION_DEPTH THEN Collected(<<>>, <<>>)
  ELSE LET get == <<[url |-> url, depth |-> depth]>>
       IN  CASE site[url].kind = "none" -> Collected(<<>>, get)
             [] site[url].kind = "sitemapindex" ->
                  parse_index(site, site[url].tags, 1, depth, Collected(<<>>, get))
             [] OTHER -> Collected(parse_urlset(site[url].tags), get)

parse_sitemap(site, url, depth) ==
  IF depth >= MAX_RECURSION_DEPTH THEN Collected(<<>>, <<>>)
  ELSE LET get == <<[url |-> url, depth |-> depth]>>
       IN  CASE site[url].kind = "none" -> Collected(<<>>, get)
             [] site[url].kind = "sitemapindex" ->
                  parse_index(site, site[url].tags, 1, depth, Collected(<<>>, get))
             [] OTHER -> Collected(parse_urlset(site[url].tags), get)

parse_index(site, tags, k, depth, before) ==
  IF k > Len(tags) THEN before
  ELSE IF IsNone(tags[k].loc) THEN parse_index(site, tags, k + 1, depth, before)
  ELSE LET sub == parse_sitemap(site, tags[k].loc[1], depth + 1)
           after == Collected(before.entries \o sub.entries, before.gets \o sub.gets)
       IN  IF Len(after.entries) >= MAX_SITEMAP_ENTRIES THEN after
           ELSE parse_index(site, tags, k + 1, depth, after)

\* urls_to_try with the two default paths after the hints
UrlsToTry_hints_then_defaults(sitemap_urls) ==
  sitemap_urls \o <<"/sitemap.xml", "/sitemap_index.xml">>

\* urls_to_try: the hints, the two default paths when there is none
UrlsToTry(sitemap_urls) ==
  IF sitemap_urls # <<>> THEN sitemap_urls ELSE <<"/sitemap.xml", "/sitemap_index.xml">>

\* The loop of parse over urls_to_try, given up at the first GET that fails.
RECURSIVE TryFrom_stop_at_failure(_, _, _, _)
TryFrom_stop_at_failure(site, urls_to_try, k, gets) ==
  IF k > Len(urls_to_try)
  THEN [all_entries |-> <<>>, source |-> "sitemap", gets |-> gets]
  ELSE LET got == parse_sitemap(site, urls_to_try[k], 0)
       IN  IF got.entries # <<>>
           THEN [all_entries |-> got.entries, source |-> urls_to_try[k],
                 gets |-> gets \o got.gets]
           ELSE IF site[urls_to_try[k]].kind = "none"
           THEN [all_entries |-> <<>>, source |-> "sitemap", gets |-> gets \o got.gets]
           ELSE TryFrom_stop_at_failure(site, urls_to_try, k + 1, gets \o got.gets)

\* The loop of parse over urls_to_try without its break.
RECURSIVE TryFrom_no_break(_, _, _, _)
TryFrom_no_break(site, urls_to_try, k, gets) ==
  IF k > Len(urls_to_try)
  THEN [all_entries |-> <<>>, source |-> "sitemap", gets |-> gets]
  ELSE LET got == parse_sitemap(site, urls_to_try[k], 0)
           rest == TryFrom_no_break(site, urls_to_try, k + 1, gets \o got.gets)
       IN  [all_entries |-> got.entries \o rest.all_entries,
            source |-> IF rest.source # "sitemap" THEN rest.source
                       ELSE IF got.entries # <<>> THEN urls_to_try[k] ELSE "sitemap",
            gets |-> rest.gets]

\* The loop of parse over urls_to_try from candidate k on.
RECURSIVE TryFrom(_, _, _, _)
TryFrom(site, urls_to_try, k, gets) ==
  IF k > Len(urls_to_try)
  THEN [all_entries |-> <<>>, source |-> "sitemap", gets |-> gets]
  ELSE LET got == parse_sitemap(site, urls_to_try[k], 0)
       IN  IF got.entries # <<>>
           THEN [all_entries |-> got.entries, source |-> urls_to_try[k],
                 gets |-> gets \o got.gets]
           ELSE TryFrom(site, urls_to_try, k + 1, gets \o got.gets)

\* unique_entries without the dict: every collected entry is kept.
UniqueEntries_keep_all(all_entries) == all_entries

\* list({e.url: e for e in all_entries}.values()): a dict keeps a key at the
\* place of its first insertion, with the value of its last.
UniqueEntries(all_entries) ==
  LET first == SelectSeq([k \in 1..Len(all_entries) |-> k], LAMBDA k :
                 \A m \in 1..(k - 1) : all_entries[m].url # all_entries[k].url)
      last(url) == CHOOSE k \in 1..Len(all_entries) :
                     /\ all_entries[k].url = url
                     /\ \A m \in (k + 1)..Len(all_entries) : all_entries[m].url # url
  IN  [ i \in 1..Len(first) |-> all_entries[last(all_entries[first[i]].url)] ]

\* x[:n]
Slice(x, n) == SubSeq(x, 1, IF Len(x) < n THEN Len(x) ELSE n)

\* SitemapParser.parse, on what _get_cached returned: the result, and what the
\* call tried, fetched and collected.
sitemap_parse(site, cached, sitemap_urls) ==
  IF Bool(cached)
  THEN [result |-> cached[1], hit |-> TRUE, urls_to_try |-> <<>>, gets |-> <<>>,
        all_entries |-> <<>>]
  ELSE LET tried == TryFrom(site, UrlsToTry(sitemap_urls), 1, <<>>)
       IN  [result |-> SitemapResult(
                         Slice(UniqueEntries(tried.all_entries), MAX_SITEMAP_ENTRIES),
                         tried.source),
            hit |-> FALSE, urls_to_try |-> UrlsToTry(sitemap_urls), gets |-> tried.gets,
            all_entries |-> tried.all_entries]

(***************************************************************************)
(* The sites and the robots.txt files of the model.                        *)
(***************************************************************************)
MaxJobs == 2

SitemapPageUrl(k) == <<"https", "://", "a.com", "/", "p", k>>
Loc(url) == Tag(Some(url), None)
\* <url> tags for the pages a to b, without priority
PageTags(a, b) == [k \in 1..(b - a + 1) |-> Loc(SitemapPageUrl(a + k - 1))]
\* <url> tags with a repeated page, a tag without <loc>, an ftp <loc> and
\* priorities that are numbers and one that is not
MixedTags ==
  << Tag(Some(SitemapPageUrl(1)), Some("0.5")), Tag(None, Some("0.8")),
     Tag(Some(SitemapPageUrl(2)), Some("high")),
     Tag(Some(<<"ftp", "://", "a.com", "/", "p", 3>>), None),
     Tag(Some(SitemapPageUrl(1)), Some("0.8")), Tag(Some(SitemapPageUrl(4)), None) >>

Site(hintA, sitemap_xml, sitemap_index_xml, leaf1, leaf2) ==
  ("hintA" :> hintA) @@ ("hintB" :> Urlset(PageTags(5, 6)))
    @@ ("/sitemap.xml" :> sitemap_xml) @@ ("/sitemap_index.xml" :> sitemap_index_xml)
    @@ ("leaf1" :> leaf1) @@ ("leaf2" :> leaf2)
    @@ ("loop" :> SitemapIndex(<<Loc("loop"), Loc("leaf1")>>))

\* /sitemap.xml is a two-level index whose leaves hold 300 + 300 pages.
TwoLevel600 ==
  Site(FetchFails, SitemapIndex(<<Loc("leaf1"), Loc("leaf2")>>), FetchFails,
       Urlset(PageTags(1, 300)), Urlset(PageTags(301, 600)))

(***************************************************************************)
(* _discover_pages, called for one base URL up to MaxJobs times.           *)
(***************************************************************************)
\* _discover_pages is called for the first time: nothing is resolved yet, and
\* nothing is cached.
DiscoverInit ==
  /\ disc_pc = "robots"
  /\ jobs = 1
  /\ sitemaps \in ({ Site(FetchFails, FetchFails, FetchFails, FetchFails, Urlset(MixedTags)),
                     Site(Urlset(MixedTags), Urlset(PageTags(7, 8)), FetchFails, FetchFails,
                          Urlset(MixedTags)),
                     TwoLevel600,
                     Site(FetchFails, FetchFails,
                          SitemapIndex(<<Tag(None, None), Loc("leaf2"), Loc("leaf1")>>),
                          Urlset(PageTags(1, 300)), Urlset(MixedTags)),
                     Site(Urlset(<<>>), SitemapIndex(<<Loc("loop"), Loc("leaf2")>>), FetchFails,
                          FetchFails, Urlset(MixedTags)),
                     Site(FetchFails, SitemapIndex(<<Loc("loop"), Loc("leaf2")>>), FetchFails,
                          Urlset(PageTags(1, 300)), Urlset(PageTags(301, 600))),
                     Site(FetchFails, SitemapIndex(<<Loc("leaf1"), Loc("/sitemap_index.xml")>>),
                          SitemapIndex(<<Loc("leaf2"), Loc("hintB")>>),
                          Urlset(PageTags(1, 300)), Urlset(PageTags(301, 600))) })
  /\ cache_on \in BOOLEAN
  /\ cache = None
  /\ robots_got = None
  /\ robots_result = None
  /\ sitemap_call = None
  /\ found_pages = None
  /\ crawl_pc = "idle"
  /\ start_url = <<"https", "://", "a.com">>
  /\ disallowed = <<>>
  /\ max_urls \in 1..MaxUrls
  /\ max_depth = 1
  /\ browser_config = FALSE
  /\ queue = <<>>
  /\ visited = {}
  /\ discovered = <<>>
  /\ fetched = <<>>
  /\ dropped = {}
  /\ FetchIdle
  /\ RateIdle

\* robots_result = await robots_parser.parse(url)
DiscoverRobots ==
  /\ disc_pc = "robots"
  /\ \E text \in ({ None,
                    Some(<< Line("Sitemap", Some("hintA")), Line("User-agent", Some("Googlebot")),
                            Line("Disallow", Some(<<"/", "docs">>)), Line("SITEMAP", Some("hintB")),
                            Line(" ", None), Line("User-Agent", Some("*")), Line("Disallow", None),
                            Line("DISALLOW", Some(<<"/", "private">>)), Line("Crawl-delay", Some("2.5")),
                            Line("Crawl-delay", Some("1")) >>),
                    Some(<< Line("#", None), Line("Disallow", Some(<<"/", "docs">>)),
                            Line("User-agent", Some("SpongeBot")), Line("Crawl-delay", Some("fast")),
                            Line("Sitemap", None), Line("Sitemap", Some("hintA")) >>),
                    Some(<< Line("User-agent", Some("*")), Line("Disallow", Some(<<"/", "private">>)) >>) }) :
       /\ robots_got' = Some(text)
       /\ robots_result' = Some(robots_parse(text))
  /\ disc_pc' = "sitemap"
  /\ UNCHANGED <<jobs, sitemaps, cache_on, cache, sitemap_call, found_pages>>
  /\ UNCHANGED <<fetchVars, crawlVars, rateVars>>

\* pages[: config.crawl.max_urls], with the cap left out
Capped_none(pages_) == pages_

\* pages[: config.crawl.max_urls]
Capped(pages_) == Slice(pages_, max_urls)

\* _get_cached that never finds a value
get_cached_miss(read_ok) == None

\* _get_cached: None without a cache, when the read fails or the value does
\* not validate, and when nothing is cached
get_cached(read_ok) == IF cache_on /\ read_ok THEN cache ELSE None

\* The cache after _set_cached(cache_key, result)
set_cached(write_ok, result) == IF cache_on /\ write_ok THEN Some(result) ELSE cache

\* sitemap_result = await sitemap_parser.parse(url, robots_result.sitemap_urls),
\* the cache read and the cache write, where there is one, failing or not, and
\* then either the pages of the entries, capped and returned, or the call of
\* LinkCrawler.crawl.
DiscoverSitemap ==
  /\ disc_pc = "sitemap"
  /\ \E read_ok \in IF cache_on THEN BOOLEAN ELSE {FALSE} :
       \E call \in {sitemap_parse(sitemaps, get_cached(read_ok),
                                  robots_result[1].sitemap_urls)} :
       \E write_ok \in IF cache_on /\ ~call.hit THEN BOOLEAN ELSE {FALSE} :
         /\ sitemap_call' = Some(call @@ [read_ok |-> read_ok, write_ok |-> write_ok])
         /\ cache' = IF call.hit THEN cache ELSE set_cached(write_ok, call.result)
         /\ IF call.result.entries # <<>>
            THEN /\ found_pages' =
                      Some(Capped([k \in 1..Len(call.result.entries) |->
                             DiscoveredPage(call.result.entries[k].url, "sitemap", 0)]))
                 /\ disc_pc' = "done"
                 /\ UNCHANGED crawlVars
            ELSE /\ found_pages' = found_pages
                 /\ disc_pc' = "crawl"
                 /\ crawl_pc' = "loop"
                 /\ disallowed' = robots_result[1].disallowed_paths
                 /\ queue' = << [url |-> start_url, depth |-> 0] >>
                 /\ UNCHANGED <<start_url, max_urls, max_depth, browser_config, visited,
                                discovered, fetched, dropped>>
  /\ UNCHANGED <<jobs, sitemaps, cache_on, robots_got, robots_result>>
  /\ UNCHANGED <<fetchVars, rateVars>>

\* crawl returned: the pages are capped and returned.
DiscoverCrawled ==
  /\ disc_pc = "crawl"
  /\ crawl_pc = "done"
  /\ found_pages' = Some(Capped(discovered))
  /\ disc_pc' = "done"
  /\ UNCHANGED <<jobs, sitemaps, cache_on, cache, robots_got, robots_result, sitemap_call>>
  /\ UNCHANGED <<fetchVars, crawlVars, rateVars>>

\* A later job on the same base URL calls _discover_pages again.
DiscoverAgain ==
  /\ disc_pc = "done"
  /\ jobs < MaxJobs
  /\ jobs' = jobs + 1
  /\ disc_pc' = "robots"
  /\ robots_got' = None
  /\ robots_result' = None
  /\ sitemap_call' = None
  /\ found_pages' = None
  /\ crawl_pc' = "idle"
  /\ disallowed' = <<>>
  /\ queue' = <<>>
  /\ visited' = {}
  /\ discovered' = <<>>
  /\ fetched' = <<>>
  /\ dropped' = {}
  /\ UNCHANGED <<sitemaps, cache_on, cache, start_url, max_urls, max_depth, browser_config>>
  /\ UNCHANGED <<fetchVars, rateVars>>

\* The cached value outlives SITEMAP_CACHE_TTL and is gone.
CacheExpires ==
  /\ disc_pc = "done"
  /\ Bool(cache)
  /\ cache' = None
  /\ UNCHANGED <<disc_pc, jobs, sitemaps, cache_on, robots_got, robots_result,
                 sitemap_call, found_pages>>
  /\ UNCHANGED <<fetchVars, crawlVars, rateVars>>

DiscoverNext ==
  \/ DiscoverRobots
  \/ DiscoverSitemap
  \/ CrawlIteration
  \/ CrawlReturn
  \/ DiscoverCrawled
  \/ DiscoverAgain
  \/ CacheExpires

\* Jobs on every site, one after the other.
DiscoverSpec == DiscoverInit /\ [][DiscoverNext]_vars

(***************************************************************************)
(* Properties of the discovery phase.                                      *)
(***************************************************************************)
\* C14: in _discover_pages robots.txt is resolved before the sitemaps, which
\* are resolved with the robots.txt hints; crawl is called if and only if the
\* sitemap result has no entry, with the disallowed paths of robots.txt; and
\* the returned page list has at most max_urls pages, from the sitemap entries
\* or from crawl.
C14_RobotsSitemapCrawlCap ==
  /\ Bool(sitemap_call) => Bool(robots_result)
  /\ (Bool(sitemap_call) /\ ~sitemap_call[1].hit) =>
       sitemap_call[1].urls_to_try = UrlsToTry(robots_result[1].sitemap_urls)
  /\ crawl_pc # "idle" <=> (Bool(sitemap_call) /\ sitemap_call[1].result.entries = <<>>)
  /\ crawl_pc # "idle" => disallowed = robots_result[1].disallowed_paths
  /\ disc_pc = "done" <=> Bool(found_pages)
  /\ Bool(found_pages) =>
       /\ Len(found_pages[1]) <= max_urls
       /\ \A k \in 1..Len(found_pages[1]) :
            IF crawl_pc = "idle"
            THEN /\ found_pages[1][k].source = "sitemap"
                 /\ found_pages[1][k].url = sitemap_call[1].result.entries[k].url
            ELSE found_pages[1][k] = discovered[k]

\* _discover_pages returned max_urls pages of a sitemap with more entries, in a
\* job whose robots.txt named the sitemap.
C14_Witness ==
  /\ disc_pc = "done"
  /\ crawl_pc = "idle"
  /\ robots_result[1].sitemap_urls # <<>>
  /\ Len(sitemap_call[1].result.entries) > max_urls
  /\ Len(found_pages[1]) = max_urls

\* The URLs of a sequence of entries, as a set.
UrlsOf(entries) == {entries[k].url : k \in 1..Len(entries)}

\* Where url occurs first in a sequence of entries.
FirstSeen(entries, url) ==
  CHOOSE k \in 1..Len(entries) :
    entries[k].url = url /\ \A m \in 1..(k - 1) : entries[m].url # url

\* The entries of a resolution over the network, and the entries it collected.
ResultEntries == sitemap_call[1].result.entries
ParsedOverNetwork == Bool(sitemap_call) /\ ~sitemap_call[1].hit

\* C15: the entries sitemap resolution returns are pairwise distinct by URL,
\* are at most 500 and stand in the order in which their URLs were first seen,
\* being the first of the distinct URLs seen; on the two-level index whose
\* leaves hold 600 URLs in total, exactly 500 entries are returned.
C15_DistinctCappedFirstSeen ==
  ParsedOverNetwork =>
    /\ Cardinality(UrlsOf(ResultEntries)) = Len(ResultEntries)
    /\ Len(ResultEntries) <= 500
    /\ UrlsOf(ResultEntries) \subseteq UrlsOf(sitemap_call[1].all_entries)
    /\ \A k \in 1..(Len(ResultEntries) - 1) :
         FirstSeen(sitemap_call[1].all_entries, ResultEntries[k].url)
           < FirstSeen(sitemap_call[1].all_entries, ResultEntries[k + 1].url)
    /\ \/ Len(ResultEntries) = 500
       \/ UrlsOf(ResultEntries) = UrlsOf(sitemap_call[1].all_entries)
    /\ Len(ResultEntries) = 500 =>
         \A k \in 1..FirstSeen(sitemap_call[1].all_entries, ResultEntries[500].url) :
           sitemap_call[1].all_entries[k].url \in UrlsOf(ResultEntries)
    /\ (sitemaps = TwoLevel600 /\ sitemap_call[1].urls_to_try[1] = "/sitemap.xml") =>
         Len(ResultEntries) = 500

\* The two-level index over 600 URLs was resolved: 600 entries were collected
\* and 500 returned.
C15_Witness ==
  /\ ParsedOverNetwork
  /\ sitemaps = TwoLevel600
  /\ Len(sitemap_call[1].all_entries) = 600
  /\ Len(ResultEntries) = 500

\* The candidates a resolution fetched, in order: its GETs at depth 0.
CandidatesFetched ==
  LET top == SelectSeq(sitemap_call[1].gets, LAMBDA g : g.depth = 0)
  IN  [k \in 1..Len(top) |-> top[k].url]

\* The entries a candidate yields on this site.
Yields(url) == parse_sitemap(sitemaps, url, 0).entries

\* C16: the candidates are fetched in the order of urls_to_try, each after all
\* the candidates before it yielded no entry; the first candidate that yields
\* an entry is the last one fetched and the source of the result, and every
\* entry of the result is an entry of that candidate.
C16_FirstYieldingCandidate ==
  ParsedOverNetwork =>
    /\ Len(CandidatesFetched) <= Len(sitemap_call[1].urls_to_try)
    /\ CandidatesFetched =
         SubSeq(sitemap_call[1].urls_to_try, 1, Len(CandidatesFetched))
    /\ \A k \in 1..(Len(CandidatesFetched) - 1) : Yields(CandidatesFetched[k]) = <<>>
    /\ IF ResultEntries # <<>>
       THEN /\ sitemap_call[1].result.source = CandidatesFetched[Len(CandidatesFetched)]
            /\ sitemap_call[1].all_entries = Yields(sitemap_call[1].result.source)
            /\ UrlsOf(ResultEntries) \subseteq UrlsOf(Yields(sitemap_call[1].result.source))
       ELSE Len(CandidatesFetched) = Len(sitemap_call[1].urls_to_try)

\* Resolution stopped at the first of two hints, which yields entries, on a
\* site whose second hint yields entries too.
C16_Witness ==
  /\ ParsedOverNetwork
  /\ Len(sitemap_call[1].urls_to_try) = 2
  /\ CandidatesFetched = <<sitemap_call[1].urls_to_try[1]>>
  /\ ResultEntries # <<>>
  /\ Yields(sitemap_call[1].urls_to_try[2]) # <<>>

\* The hints robots.txt gave to this resolution.
Hints == robots_result[1].sitemap_urls

\* C17 as claimed: when hints are given and every hint yields no entry,
\* /sitemap.xml and then /sitemap_index.xml are fetched after the hints before
\* an empty result is returned.
C17_DefaultsAfterHints ==
  (ParsedOverNetwork /\ Hints # <<>> /\ \A k \in 1..Len(Hints) : Yields(Hints[k]) = <<>>) =>
    /\ Len(CandidatesFetched) > Len(Hints)
    /\ SubSeq(CandidatesFetched, 1, Len(Hints)) = Hints
    /\ CandidatesFetched[Len(Hints) + 1] = "/sitemap.xml"
    /\ ResultEntries = <<>> =>
         CandidatesFetched = Hints \o <<"/sitemap.xml", "/sitemap_index.xml">>

\* C17 (amended): when hints are given only the hints are tried, in order:
\* if every hint yields no entry the result is empty and the candidates
\* fetched are the hints alone.  /sitemap.xml and /sitemap_index.xml are the
\* candidates, in that order, only when there is no hint.
C17_DefaultsOnlyWithoutHints ==
  ParsedOverNetwork =>
    /\ sitemap_call[1].urls_to_try =
         IF Hints # <<>> THEN Hints ELSE <<"/sitemap.xml", "/sitemap_index.xml">>
    /\ \A k \in 1..Len(CandidatesFetched) :
         CandidatesFetched[k] = sitemap_call[1].urls_to_try[k]
    /\ (Hints # <<>> /\ \A k \in 1..Len(Hints) : Yields(Hints[k]) = <<>>) =>
         /\ ResultEntries = <<>>
         /\ CandidatesFetched = Hints

\* A resolution with a hint that yields nothing returned an empty result on a
\* site whose /sitemap.xml holds entries.
C17_Witness ==
  /\ ParsedOverNetwork
  /\ Hints # <<>>
  /\ ResultEntries = <<>>
  /\ CandidatesFetched = Hints
  /\ Yields("/sitemap.xml") # <<>>

\* The entries of the <urlset> documents among the first k GETs, in order.
RECURSIVE EntriesFetched(_, _)
EntriesFetched(gets, k) ==
  IF k = 0 THEN <<>>
  ELSE EntriesFetched(gets, k - 1)
         \o (IF sitemaps[gets[k].url].kind = "urlset"
             THEN parse_urlset(sitemaps[gets[k].url].tags) ELSE <<>>)

\* C18: every sitemap fetched is nested less than 3 deep (the candidate is at
\* depth 0), every resolution returns, and a reference at depth 3 or deeper
\* contributes nothing: the entries collected are exactly those of the
\* documents fetched.
C18_RecursionBounded ==
  /\ disc_pc \in {"crawl", "done"} => Bool(sitemap_call)
  /\ ParsedOverNetwork =>
       /\ \A k \in 1..Len(sitemap_call[1].gets) : sitemap_call[1].gets[k].depth < 3
       /\ sitemap_call[1].all_entries =
            EntriesFetched(sitemap_call[1].gets, Len(sitemap_call[1].gets))

\* An index that refers to itself was fetched at depths 0, 1 and 2 and no
\* deeper, and the resolution returned the entries of the other sitemaps.
C18_Witness ==
  /\ ParsedOverNetwork
  /\ \E k \in 1..Len(sitemap_call[1].gets) :
       sitemap_call[1].gets[k] = [url |-> "loop", depth |-> 2]
  /\ sitemaps[sitemap_call[1].gets[1].url].kind = "sitemapindex"
  /\ ResultEntries # <<>>

\* C19: a resolution that finds a value cached for the base URL, its read
\* succeeding, returns that value, makes no GET and leaves the cache as it is;
\* without a cache, when the read fails and when nothing is cached the
\* resolution goes over the network and returns, and it returns as well when
\* the write fails, the cache then staying as it was.
C19_CacheHitSkipsNetwork ==
  [][(disc_pc = "sitemap" /\ disc_pc' # "sitemap") =>
       /\ Bool(sitemap_call')
       /\ (cache_on /\ Bool(cache) /\ sitemap_call'[1].read_ok) =>
            /\ sitemap_call'[1].result = cache[1]
            /\ sitemap_call'[1].gets = <<>>
            /\ cache' = cache
       /\ (~cache_on \/ IsNone(cache) \/ ~sitemap_call'[1].read_ok) =>
            /\ sitemap_call'[1].gets # <<>>
            /\ sitemap_call'[1].urls_to_try = UrlsToTry(robots_result[1].sitemap_urls)
            /\ Len(sitemap_call'[1].gets) >= Len(sitemap_call'[1].urls_to_try)
                 \/ sitemap_call'[1].result.entries # <<>>
            /\ cache' = IF cache_on /\ sitemap_call'[1].write_ok
                        THEN Some(sitemap_call'[1].result) ELSE cache
       /\ ~cache_on => IsNone(cache')]_vars

\* The second job on a base URL was answered from the cache, with pages and
\* without any GET.
C19_Witness ==
  /\ jobs = 2
  /\ Bool(sitemap_call)
  /\ sitemap_call[1].hit
  /\ sitemap_call[1].gets = <<>>
  /\ ResultEntries # <<>>
  /\ sitemap_call[1].result = cache[1]

\* C20: a failed GET of robots.txt yields the RobotsResult without directives;
\* a candidate whose GET fails yields no entry and the next candidate, if
\* there is one, is fetched; when the GET of every candidate fails the result
\* is empty and every candidate was fetched; and the job goes on in each case.
C20_FetchFailuresRecovered ==
  /\ (Bool(robots_got) /\ IsNone(robots_got[1])) =>
       /\ robots_result = Some(RobotsResult(<<>>, None, <<>>))
       /\ disc_pc \in {"sitemap", "crawl", "done"}
  /\ ParsedOverNetwork =>
       /\ disc_pc \in {"crawl", "done"}
       /\ \A k \in 1..Len(CandidatesFetched) :
            sitemaps[CandidatesFetched[k]].kind = "none" =>
              /\ Yields(CandidatesFetched[k]) = <<>>
              /\ k < Len(sitemap_call[1].urls_to_try) =>
                   /\ Len(CandidatesFetched) > k
                   /\ CandidatesFetched[k + 1] = sitemap_call[1].urls_to_try[k + 1]
       /\ (\A k \in 1..Len(sitemap_call[1].urls_to_try) :
             sitemaps[sitemap_call[1].urls_to_try[k]].kind = "none") =>
            /\ ResultEntries = <<>>
            /\ CandidatesFetched = sitemap_call[1].urls_to_try

\* The GET of robots.txt and the GET of /sitemap.xml failed, and the job has
\* the entries of /sitemap_index.xml.
C20_Witness ==
  /\ ParsedOverNetwork
  /\ IsNone(robots_got[1])
  /\ CandidatesFetched = <<"/sitemap.xml", "/sitemap_index.xml">>
  /\ sitemaps["/sitemap.xml"].kind = "none"
  /\ ResultEntries # <<>>
  /\ disc_pc = "done"

(***************************************************************************)
(* RobotsParser.parse on its own: one robots.txt of up to MaxLines lines   *)
(* is fetched and parsed.                                                  *)
(***************************************************************************)
MaxLines == 3

\* The lines a robots.txt is made of here.
RobotsLines ==
  << Line("Sitemap", Some("hintA")), Line("SITEMAP", Some("hintB")), Line("Sitemap", None),
    Line("User-agent", Some("Googlebot")), Line("User-Agent", Some("*")),
    Line("User-agent", Some("SpongeBot")), Line("User-agent", None),
    Line("Disallow", Some(<<"/", "docs">>)), Line("DISALLOW", Some(<<"/", "private">>)),
    Line("Disallow", None), Line("Crawl-delay", Some("2.5")),
    Line("Crawl-delay", Some("1")), Line("Crawl-delay", Some("fast")),
    Line("Allow", Some(<<"/">>)), Line("#", None), Line(" ", None) >>

RobotsInit ==
  /\ disc_pc = "robots"
  /\ jobs = 1
  /\ sitemaps = <<>>
  /\ cache_on = FALSE
  /\ cache = None
  /\ robots_got = None
  /\ robots_result = None
  /\ sitemap_call = None
  /\ found_pages = None
  /\ CrawlIdle
  /\ FetchIdle
  /\ RateIdle

\* RobotsParser.parse: get_text_safe answers None or the text of robots.txt.
RobotsParse ==
  /\ disc_pc = "robots"
  /\ \E n \in 0..MaxLines, found \in BOOLEAN :
       \E lines \in [1..n -> 1..Len(RobotsLines)] :
         \E text \in {IF found THEN Some([k \in 1..n |-> RobotsLines[lines[k]]]) ELSE None} :
           /\ found \/ n = 0
           /\ robots_got' = Some(text)
           /\ robots_result' = Some(robots_parse(text))
  /\ disc_pc' = "parsed"
  /\ UNCHANGED <<jobs, sitemaps, cache_on, cache, sitemap_call, found_pages>>
  /\ UNCHANGED <<fetchVars, crawlVars, rateVars>>

RobotsSpec == RobotsInit /\ [][RobotsParse]_vars

\* The robots.txt that was parsed, and the positions of its lines.
RobotsFetched == Bool(robots_got) /\ Bool(robots_got[1])
RobotsText == robots_got[1][1]

\* The values of the lines at the positions in `at`, in file order.
ValuesAt(content, at) ==
  LET pick[k \in 0..Len(content)] ==
        IF k = 0 THEN <<>>
        ELSE IF k \in at THEN Append(pick[k - 1], content[k].value[1]) ELSE pick[k - 1]
  IN  pick[Len(content)]

\* The positions of the lines with the directive `name` and a value.
Directives(content, name) ==
  {k \in 1..Len(content) : IgnoreCaseName(content[k].name) = name /\ Bool(content[k].value)}

\* C21: every Sitemap line of robots.txt is collected, in file order,
\* whichever User-agent block is active at that line: also in a block that
\* does not apply to this crawler, and before any User-agent line.
C21_SitemapLinesAreGlobal ==
  RobotsFetched =>
    robots_result[1].sitemap_urls = ValuesAt(RobotsText, Directives(RobotsText, "sitemap"))

\* A robots.txt with a Sitemap line before any User-agent line and one in a
\* block for another crawler was parsed, and both were collected.
C21_Witness ==
  /\ RobotsFetched
  /\ \E j, k \in Directives(RobotsText, "sitemap") :
       /\ j < k
       /\ Directives(RobotsText, "user-agent") \cap 1..j = {}
       /\ \E a \in Directives(RobotsText, "user-agent") :
            a < k /\ ~AppliesAt(RobotsText, k)
  /\ Len(robots_result[1].sitemap_urls) = 2

\* The positions of the Crawl-delay lines with a number, in applicable blocks.
DelaysOfOurBlocks(content) ==
  {k \in Directives(content, "crawl-delay") :
     content[k].value[1] \in {"1", "2.5"} /\ AppliesAt(content, k)}

\* C22: a Disallow or Crawl-delay line takes effect only if the most recent
\* User-agent line names * or the crawler's own name, in any case; before any
\* User-agent line and in a block for another crawler it changes nothing; a
\* Disallow without a value is never recorded; crawl_delay is the value of the
\* first Crawl-delay line of an applicable block, whatever follows it.
C22_DirectivesOnlyInOurBlocks ==
  RobotsFetched =>
    LET content == RobotsText
        delays == DelaysOfOurBlocks(content)
    IN  /\ robots_result[1].disallowed_paths =
             ValuesAt(content, {k \in Directives(content, "disallow") : AppliesAt(content, k)})
        /\ robots_result[1].crawl_delay =
             IF delays = {} THEN None
             ELSE content[CHOOSE k \in delays : \A m \in delays : k <= m].value

\* A robots.txt was parsed in which two different Crawl-delay lines stand in
\* an applicable block: the first delay was kept.
C22_Witness ==
  /\ RobotsFetched
  /\ Cardinality(DelaysOfOurBlocks(RobotsText)) = 2
  /\ robots_result[1].crawl_delay = Some("2.5")
  /\ RobotsText[Len(RobotsText)].value = Some("1")

(***************************************************************************)
(* MetaExtractor.extract on its own: one HTML document is parsed and its   *)
(* metadata extracted.  Here a document also records all its <p> elements; *)
(* _extract_description reads the first (soup.find("p")).                  *)
(***************************************************************************)

\* extract(url, html) is called with a document.
ExtractInit ==
  /\ pc = "extract"
  /\ pages = <<PageUrl(1)>>
  /\ \E title_tag \in {None, Some(<<>>), Some(<<" ", "Home", " ">>)},
        h1 \in {None, Some(<<"Hello", " ">>)},
        meta_description \in {None, Some(<<" ">>), Some(<<"Welcome">>), Some(<<"x400", "x400">>)},
        og_description \in {None, Some(<<"Hello", " ", "world">>)},
        paragraphs \in ({ <<>>, << <<"Hello">> >>, << <<" ", "Hello", " ", "world", " ", "Welcome", " ", "Home">> >>,
                          << <<"Welcome", " ", "Welcome", " ", "Home">> >>,
                          << <<"Hello">>, <<"Hello", " ", "world", " ", "Welcome", " ", "Home">> >> }),
        has_body \in BOOLEAN, body_text_len \in {0, 49, 50, 99, 100, 200, 201},
        next_div \in BOOLEAN, root_div \in {None, Some(49), Some(50)},
        noscript \in BOOLEAN, non_script_children \in 0..2 :
       /\ ~has_body => body_text_len = 0 /\ non_script_children = 0
       /\ has_body /\ Bool(root_div) => root_div[1] <= body_text_len /\ non_script_children >= 1
       /\ http_got =
            << HttpResponse(200, "text/html",
                 [paragraphs |-> paragraphs] @@
                 Doc(title_tag, h1, meta_description, og_description,
                     IF paragraphs = <<>> THEN None ELSE Some(paragraphs[1]),
                     has_body, body_text_len, next_div, root_div, noscript,
                     non_script_children, <<>>)) >>
  /\ http_out = <<Pending>>
  /\ concurrency = 0
  /\ delay_ms = 0
  /\ http_answers = {}
  /\ render_answers = {}
  /\ http_pc = <<>>
  /\ semaphore = 0
  /\ completed = 0
  /\ progress = None
  /\ calls = <<>>
  /\ results = <<>>
  /\ csr_indices = <<>>
  /\ render_pc = <<>>
  /\ render_out = <<>>
  /\ render_got = <<>>
  /\ render_semaphore = 0
  /\ render_completed = 0
  /\ browser = 0
  /\ launched = 0
  /\ closed = {}
  /\ used = {}
  /\ CrawlIdle
  /\ DiscoverIdle
  /\ RateIdle

\* MetaExtractor.extract
Extract ==
  /\ pc = "extract"
  /\ http_out' = <<Return(MetaExtract(pages[1], http_got[1].doc))>>
  /\ pc' = "extracted"
  /\ UNCHANGED <<pages, concurrency, delay_ms, http_answers, render_answers, http_pc, http_got,
                 semaphore, completed, progress, calls, results, csr_indices, render_pc,
                 render_out, render_got, render_semaphore, render_completed, browser,
                 launched, closed, used>>
  /\ UNCHANGED outsideFetch

ExtractSpec == ExtractInit /\ [][Extract]_vars

\* The document given to extract, and the page it returned.
Document == http_got[1].doc
Extracted == http_out[1].value

\* C23: a document whose visible body text is longer than 200 characters is
\* never classified as CSR, whatever SPA root markers or noscript elements it
\* contains.
C23_LongBodyTextIsNotCsr ==
  (pc = "extracted" /\ Document.has_body /\ Document.body_text_len > 200)
    => ~Extracted.is_js_rendered

\* A document with 201 characters of body text, a #root div with less than 50
\* characters inside and a noscript element was extracted as not CSR.
C23_Witness ==
  /\ pc = "extracted"
  /\ Document.has_body /\ Document.body_text_len = 201
  /\ Document.root_div = Some(49) /\ Document.noscript
  /\ ~Extracted.is_js_rendered

\* The verdict of the six rules of the CSR heuristic, the first that matches
\* deciding; a document without a body has no body text and no body children.
SixRules(doc, usable_meta) ==
  /\ ~(doc.body_text_len > 200)
  /\ ~(doc.next_div /\ usable_meta)
  /\ \/ Bool(doc.root_div) /\ doc.root_div[1] < 50
     \/ doc.noscript /\ doc.body_text_len < 100
     \/ doc.non_script_children <= 1 /\ doc.body_text_len < 50

\* Whether a non-empty title and a non-empty description were extracted.
UsableMeta == Truthy(Extracted.title) /\ Truthy(Extracted.description)

\* C24 as claimed: for every document, is_csr is the outcome of the six rules
\* evaluated in order, the first match winning.
C24_SixRulesDecide ==
  pc = "extracted" => (Extracted.is_js_rendered <=> SixRules(Document, UsableMeta))

\* C24: for every document with a body element, is_csr is the outcome of the
\* six rules evaluated in order, the first match winning; a document without
\* a body element is CSR.
C24_SixRulesDecideWithBody ==
  pc = "extracted" =>
    (Extracted.is_js_rendered <=> (Document.has_body => SixRules(Document, UsableMeta)))

\* A document with a body, a __next div, usable meta tags and an empty #root
\* div was extracted: the second rule decided before the third, not CSR.
C24_Witness ==
  /\ pc = "extracted"
  /\ Document.has_body /\ Document.body_text_len = 49
  /\ Document.next_div /\ UsableMeta
  /\ Document.root_div = Some(49)
  /\ ~Extracted.is_js_rendered

\* The text of a <p>, when it is longer than 20 characters.
LongEnough(p) == CharLen(Strip(p)) > 20

\* The title and description that the strategies yield in priority order,
\* with p_text the text that the <p> strategy yields, if any.
FirstYield(doc, p_text) ==
  LET desc == IF Bool(doc.meta_description) THEN Strip(doc.meta_description[1]) ELSE <<>>
      og_desc == IF Bool(doc.og_description) THEN Strip(doc.og_description[1]) ELSE <<>>
  IN  [ title |-> IF Bool(doc.title_tag) /\ doc.title_tag[1] # <<>>
                  THEN Some(Strip(doc.title_tag[1]))
                  ELSE IF Bool(doc.h1) THEN Some(Strip(doc.h1[1])) ELSE None,
        description |-> IF desc # <<>> THEN Some(desc)
                        ELSE IF og_desc # <<>> THEN Some(og_desc) ELSE p_text ]

\* The extracted title is the one given, and the extracted description the
\* one given, cut to at most 500 characters.
ExtractedAs(yield) ==
  /\ Extracted.title = yield.title
  /\ Bool(Extracted.description) <=> Bool(yield.description)
  /\ Bool(yield.description) =>
       /\ CharLen(Extracted.description[1]) <= 500
       /\ CharLen(yield.description[1]) <= 500 => Extracted.description = yield.description

\* C25 as claimed: the title is the <title> text, else the first <h1> text,
\* else absent; the description is the meta description, else og:description,
\* else the first <p> whose text is longer than 20 characters, else absent; it
\* is never longer than 500 characters.
C25_FirstYieldingStrategy ==
  pc = "extracted" =>
    LET ps == Document.paragraphs
        long == {k \in 1..Len(ps) : LongEnough(ps[k])}
    IN  ExtractedAs(FirstYield(Document,
          IF long = {} THEN None
          ELSE Some(Strip(ps[CHOOSE k \in long : \A m \in long : k <= m]))))

\* C25: as claimed, except that the <p> strategy reads the first <p> of the
\* document only: it yields its text if that is longer than 20 characters,
\* and nothing otherwise, whatever <p> elements follow.
C25_FirstParagraphOnly ==
  pc = "extracted" =>
    LET ps == Document.paragraphs
    IN  ExtractedAs(FirstYield(Document,
          IF ps # <<>> /\ LongEnough(ps[1]) THEN Some(Strip(ps[1])) ELSE None))

\* A document without <title> and description metas, with an <h1> and with a
\* long <p> after a short one, was extracted: the title is the <h1> text and
\* there is no description.
C25_Witness ==
  /\ pc = "extracted"
  /\ IsNone(Document.title_tag) /\ Extracted.title = Some(<<"Hello">>)
  /\ IsNone(Document.meta_description) /\ IsNone(Document.og_description)
  /\ Len(Document.paragraphs) = 2
  /\ IsNone(Extracted.description)

(***************************************************************************)
(* _normalize_url on its own: a URL is normalized, and the result is       *)
(* normalized again, as crawl does with a URL that it normalized when it   *)
(* enqueued it and normalizes again when it dequeues it.                   *)
(***************************************************************************)

NormalizeInit ==
  /\ crawl_pc = "normalize"
  /\ start_url \in ({ head \o path \o query \o fragment :
                        head \in {<<"https", "://", "a.com">>, <<"http", "://", "www.", "a.com">>},
                        path \in {<<>>, <<"/">>, <<"/", "/">>, <<"/", "x">>, <<"/", "x", "/">>,
                                  <<"/", "x", "/", "/">>, <<"/", "x", "/", "y", ".pdf">>},
                        query \in {<<>>, <<"?">>, <<"?", "q=1">>, <<"?", "q=1", "/">>},
                        fragment \in {<<>>, <<"#">>, <<"#", "f">>, <<"#", "f", "/">>} }
                    \cup { <<"mailto", ":", "a@b.c">>, <<"tel", ":", "123">>, <<"/", "x", "/">> })
  /\ disallowed = <<>>
  /\ max_urls = 0
  /\ max_depth = 0
  /\ browser_config = FALSE
  /\ queue = <<>>
  /\ visited = {}
  /\ discovered = <<>>
  /\ fetched = <<>>
  /\ dropped = {}
  /\ FetchIdle
  /\ DiscoverIdle
  /\ RateIdle

\* normalized = self._normalize_url(url)
Normalize ==
  /\ crawl_pc = "normalize"
  /\ visited' = {normalize_url(start_url)}
  /\ crawl_pc' = "again"
  /\ UNCHANGED <<start_url, disallowed, max_urls, max_depth, browser_config, queue,
                 discovered, fetched, dropped>>
  /\ UNCHANGED outsideCrawl

\* self._normalize_url, applied to what it returned
NormalizeAgain ==
  /\ crawl_pc = "again"
  /\ visited' = visited \cup {normalize_url(url) : url \in visited}
  /\ crawl_pc' = "normalized"
  /\ UNCHANGED <<start_url, disallowed, max_urls, max_depth, browser_config, queue,
                 discovered, fetched, dropped>>
  /\ UNCHANGED outsideCrawl

NormalizeSpec == NormalizeInit /\ [][Normalize \/ NormalizeAgain]_vars

C26_IdempotentOnWebUrls ==
  (crawl_pc = "normalized" /\ Len(start_url) >= 2 /\ start_url[2] = "://")
    => /\ Cardinality(visited) = 1
       /\ \A url \in visited : "#" \notin {url[k] : k \in 1..Len(url)}

\* Whether the HTTP fetch of page i has completed, and whether page i was sent
\* to the render phase and its render has completed.
HttpCompleted(i) == http_pc[i] \in {"sleep", "done"}
RenderCompleted(i) == \E j \in 1..Len(render_pc) : csr_indices[j] = i /\ render_pc[j] = "done"

\* C27: during fetch_all the progress callback is invoked exactly once for
\* each page when its HTTP fetch completes and exactly once more for each page
\* sent to the render phase when its render completes, successfully or not,
\* with that page's URL; the completed_count arguments are strictly
\* increasing over the successive invocations.
C27_ProgressOncePerCompletion ==
  /\ [](\A i \in 1..Len(calls) :
          calls[i] = (IF HttpCompleted(i) THEN 1 ELSE 0) + (IF RenderCompleted(i) THEN 1 ELSE 0))
  /\ [][calls' # calls =>
          /\ \E i \in 1..Len(calls) :
               /\ calls' = [calls EXCEPT ![i] = @ + 1]
               /\ \/ ~HttpCompleted(i) /\ HttpCompleted(i)'
                  \/ ~RenderCompleted(i) /\ RenderCompleted(i)'
          /\ Bool(progress')
          /\ Bool(progress) => progress'[1].completed > progress[1].completed]_vars

\* fetch_all returned after two pages were fetched and one of them was sent to
\* the render phase, where its render failed: the callback was invoked twice
\* with the URL of that page and once with the URL of the other.
C27_Witness ==
  /\ pc = "done"
  /\ Len(pages) = 2
  /\ Len(csr_indices) = 1
  /\ render_got[1].raises
  /\ calls[csr_indices[1]] = 2
  /\ \E i \in 1..2 : calls[i] = 1
  /\ progress = Some([completed |-> 3, total |-> 2])

(***************************************************************************)
(* RateLimiter (apps/core/rate_limiter.py).  Each check reads the clock;   *)
(* sequential checks are at least two Redis round trips apart, so each     *)
(* reading is later than the one before.                                   *)
(***************************************************************************)
DAY_SECONDS == 86400
MaxChecks == 4
MaxLimit == 2
MaxWindow == 3

RateLimitResult(allowed, remaining, reset_at) ==
  [allowed |-> allowed, remaining |-> remaining, reset_at |-> reset_at]

\* The sorted set under a key; a key that does not exist is an empty set.
ZSet(key) == IF key \in DOMAIN redis THEN redis[key] ELSE {}

\* `if current_count > limit`
AtLimit_exclusive(current_count, limit) == current_count > limit

\* `if current_count >= limit`
AtLimit(current_count, limit) == current_count >= limit

\* check that records the request before it tests the limit
check_records_first(zset, t, limit, window_seconds) ==
  LET kept == {score \in zset : ~(0 <= score /\ score <= t - window_seconds)}
      current_count == Cardinality(kept)
  IN  IF AtLimit(current_count, limit)
      THEN [ zset |-> kept \cup {t},
             result |-> RateLimitResult(FALSE, 0, Some(t + window_seconds)) ]
      ELSE [ zset |-> kept \cup {t},
             result |-> RateLimitResult(TRUE, limit - current_count - 1, None) ]

\* RateLimiter.check at time t, on the sorted set of its key: the set it
\* leaves and the result it returns.  expire(key, window_seconds) deletes the
\* key once every score in it has left the window, which removes nothing
\* that the next check would not remove.
check(zset, t, limit, window_seconds) ==
  LET window_start == t - window_seconds
      kept == {score \in zset : ~(0 <= score /\ score <= window_start)}
      current_count == Cardinality(kept)
      oldest == {score \in kept : \A other \in kept : score <= other}
      reset_timestamp == IF oldest # {} THEN (CHOOSE score \in oldest : TRUE) + window_seconds
                         ELSE t + window_seconds
      remaining == IF limit - current_count - 1 > 0 THEN limit - current_count - 1 ELSE 0
  IN  IF AtLimit(current_count, limit)
      THEN [zset |-> kept, result |-> RateLimitResult(FALSE, 0, Some(reset_timestamp))]
      ELSE [zset |-> kept \cup {t}, result |-> RateLimitResult(TRUE, remaining, None)]

\* A RateLimiter on an empty Redis, to be called with one limit and window.
RateLimitInit ==
  /\ now = 0
  /\ redis = <<>>
  /\ rate_limit \in 1..MaxLimit
  /\ rate_window = MaxWindow
  /\ checked = <<>>
  /\ job_rows = <<>>
  /\ delayed = 0
  /\ responses = <<>>
  /\ in_flight = {}
  /\ job_status = "pending"
  /\ task_pc = "queued"
  /\ stream_pc = <<>>
  /\ FetchIdle
  /\ CrawlIdle
  /\ DiscoverIdle

\* rate_limiter.check(identifier, limit, window_seconds), some time after the
\* check before.
Check(identifier) ==
  /\ Len(checked) < MaxChecks
  /\ \E t \in (now + 1)..(now + rate_window) :
       \E out \in {check(ZSet("ratelimit:" \o identifier), t, rate_limit, rate_window)} :
         /\ now' = t
         /\ redis' = (("ratelimit:" \o identifier) :> out.zset) @@ redis
         /\ checked' = Append(checked, [identifier |-> identifier, at |-> t] @@ out.result)
  /\ UNCHANGED <<rate_limit, rate_window, job_rows, delayed, responses>>
  /\ UNCHANGED <<in_flight, job_status, task_pc, stream_pc>>
  /\ UNCHANGED <<fetchVars, crawlVars, discVars>>

RateLimitSpec == RateLimitInit /\ [][\E identifier \in {"test:a", "test:b"} : Check(identifier)]_vars

\* The checks made for the identifier of check n before it, and whether check
\* n and all of them fall in one window.
ChecksBefore(n) == {m \in 1..(n - 1) : checked[m].identifier = checked[n].identifier}
InOneWindow(n) == \A m \in ChecksBefore(n) : checked[n].at - checked[m].at < rate_window

\* C28: for one identifier within one window, check allows exactly the first
\* `limit` sequential requests, reporting remaining = limit - (requests
\* already allowed) - 1 on each, and rejects every further request with
\* allowed = false, remaining = 0 and reset_at set; the checks made for other
\* identifiers do not change the outcome.
C28_FirstLimitRequestsAllowed ==
  \A n \in 1..Len(checked) :
    InOneWindow(n) =>
      LET c == checked[n]
          allowed_before == {m \in ChecksBefore(n) : checked[m].allowed}
      IN  /\ c.allowed <=> Cardinality(ChecksBefore(n)) < rate_limit
          /\ c.allowed => c.remaining = rate_limit - Cardinality(allowed_before) - 1
          /\ ~c.allowed => c.remaining = 0 /\ Bool(c.reset_at)

\* With a limit of two, the third check for an identifier in one window was
\* rejected; a check for another identifier had been allowed before the three.
C28_Witness ==
  /\ Len(checked) = 4
  /\ rate_limit = 2
  /\ InOneWindow(4)
  /\ Cardinality(ChecksBefore(4)) = 2
  /\ checked[1].identifier # checked[4].identifier /\ checked[1].allowed
  /\ ~checked[4].allowed /\ checked[4].remaining = 0 /\ Bool(checked[4].reset_at)

\* Whether time t is in the window of the last check.
InWindow(t) == t > now - rate_window

\* C29: a rejected request is not recorded: after any sequence of checks, the
\* recorded requests of an identifier in its window are the checks of that
\* identifier that were allowed, as many as were allowed.
C29_RejectedNotRecorded ==
  \A identifier \in {checked[n].identifier : n \in 1..Len(checked)} :
    {score \in ZSet("ratelimit:" \o identifier) : InWindow(score)}
      = {checked[n].at : n \in {m \in 1..Len(checked) :
                                   /\ checked[m].identifier = identifier
                                   /\ checked[m].allowed
                                   /\ InWindow(checked[m].at)}}

\* A check was rejected, and the sorted set of its identifier holds the two
\* requests that were allowed before it, and no more.
C29_Witness ==
  /\ Len(checked) >= 3
  /\ ~checked[Len(checked)].allowed
  /\ Cardinality(ZSet("ratelimit:" \o checked[Len(checked)].identifier)) = 2
  /\ rate_limit = 2

(***************************************************************************)
(* POST /api/jobs/ (JobCreateView.post): requests arrive one after the     *)
(* other, a second apart, up to MaxPosts from one anonymous client and up  *)
(* to MaxOtherPosts of each other kind.                                    *)
(***************************************************************************)
anonymous_daily_limit == 10
authenticated_daily_limit == 25
MaxPosts == 11
MaxOtherPosts == 1

JobCreateInit ==
  /\ now = 0
  /\ redis = <<>>
  /\ rate_limit = anonymous_daily_limit
  /\ rate_window = DAY_SECONDS
  /\ checked = <<>>
  /\ job_rows = <<>>
  /\ delayed = 0
  /\ responses = <<>>
  /\ in_flight = {}
  /\ job_status = "pending"
  /\ task_pc = "queued"
  /\ stream_pc = <<>>
  /\ FetchIdle
  /\ CrawlIdle
  /\ DiscoverIdle

\* JobCreateView.post, of an anonymous client with a valid body, of a second
\* anonymous client, of an authenticated user, or with an invalid body.
Post ==
  \E request \in { [ip |-> "198.51.100.1", user_id |-> None, valid |-> TRUE],
                   [ip |-> "198.51.100.2", user_id |-> None, valid |-> TRUE],
                   [ip |-> "198.51.100.1", user_id |-> Some("u1"), valid |-> TRUE],
                   [ip |-> "198.51.100.1", user_id |-> None, valid |-> FALSE] } :
    /\ Cardinality({n \in 1..Len(responses) : responses[n].request = request})
         < (IF request = [ip |-> "198.51.100.1", user_id |-> None, valid |-> TRUE]
            THEN MaxPosts ELSE MaxOtherPosts)
    /\ IF ~request.valid
       THEN /\ responses' = Append(responses, [request |-> request, status |-> 400, error |-> ""])
            /\ UNCHANGED <<now, redis, checked, job_rows, delayed>>
       ELSE \E identifier \in {IF Bool(request.user_id) THEN "user:" \o request.user_id[1]
                               ELSE "ip:" \o request.ip} :
            \E out \in {check(ZSet("ratelimit:" \o identifier), now + 1,
                              IF Bool(request.user_id) THEN authenticated_daily_limit
                              ELSE rate_limit, rate_window)} :
              /\ now' = now + 1
              /\ redis' = (("ratelimit:" \o identifier) :> out.zset) @@ redis
              /\ checked' = Append(checked, [identifier |-> identifier, at |-> now + 1] @@ out.result)
              /\ IF ~out.result.allowed
                 THEN /\ responses' = Append(responses, [request |-> request, status |-> 429,
                                                         error |-> "Rate limit exceeded"])
                      /\ UNCHANGED <<job_rows, delayed>>
                 ELSE /\ job_rows' = Append(job_rows, request.ip)
                      /\ delayed' = delayed + 1
                      /\ responses' = Append(responses, [request |-> request, status |-> 201,
                                                         error |-> ""])
    /\ UNCHANGED <<rate_limit, rate_window, in_flight, job_status, task_pc, stream_pc>>
    /\ UNCHANGED <<fetchVars, crawlVars, discVars>>

JobCreateSpec == JobCreateInit /\ [][Post]_vars

\* The anonymous requests from the client of response n that were answered
\* 201 before it.
CreatedBefore(n) ==
  {m \in 1..(n - 1) : /\ responses[m].request.ip = responses[n].request.ip
                      /\ IsNone(responses[m].request.user_id)
                      /\ responses[m].status = 201}

\* The responses to valid anonymous requests that at least `limit` created
\* jobs of the same client precede are 429 "Rate limit exceeded", and every
\* job row and every dispatched task belongs to a 201 response.
AnonymousLimitedTo(limit) ==
  /\ \A n \in 1..Len(responses) :
       (/\ IsNone(responses[n].request.user_id) /\ responses[n].request.valid
        /\ Cardinality(CreatedBefore(n)) >= limit)
         => responses[n].status = 429 /\ responses[n].error = "Rate limit exceeded"
  /\ Len(job_rows) = Cardinality({n \in 1..Len(responses) : responses[n].status = 201})
  /\ delayed = Len(job_rows)

\* C30: anonymous job creation is limited to 3 requests per day per client
\* IP: after three POST /api/jobs/ from one IP have each returned 201, the
\* fourth within the window returns 429 "Rate limit exceeded", and neither
\* creates a job nor dispatches a task.
C30_AnonymousLimitedToThree == AnonymousLimitedTo(3)

\* What holds instead: the anonymous limit is RateLimitConfig's default.
C30_AnonymousLimitedToDefault == AnonymousLimitedTo(anonymous_daily_limit)

\* The eleventh request of one anonymous client was answered 429.
C30_RejectedAtDefault ==
  /\ Len(responses) >= 11
  /\ responses[Len(responses)].status = 429
  /\ Len(job_rows) >= 10

(***************************************************************************)
(* Which pages fetch_all renders.                                          *)
(***************************************************************************)
\* The answer of the GET is a page that the HTTP phase extracted without an
\* error and that the CSR detector flagged.
CsrFlagged(response) ==
  /\ ~response.raises
  /\ IsHtml(response.content_type)
  /\ response.status_code < 400
  /\ ~TitleSignals(response.doc)
  /\ ~(\E signal \in SOFT_404_SIGNALS :
         Contains(Lower(OrEmpty(extract_description(response.doc))), signal))
  /\ detect_csr(response.doc).is_csr

\* The answer of the GET carries a bot-blocking status.
Blocked(response) == ~response.raises /\ response.status_code \in {403, 429}

\* C31: a page enters the render phase if and only if its HTTP-phase result is
\* CSR-flagged without an error or its HTTP status is 403 or 429; a page
\* rejected for a soft-404, for any other error status or for a transport
\* failure is never rendered, and when no page qualifies no browser is
\* launched.
C31_RenderedIffCsrOrBlocked ==
  /\ pc \in {"render", "done"} =>
       /\ \A i \in 1..N : IsRendered(i) <=> (CsrFlagged(http_got[i]) \/ Blocked(http_got[i]))
       /\ \A i \in 1..N :
            ( \/ http_got[i].raises
              \/ http_got[i].status_code >= 400 /\ http_got[i].status_code \notin {403, 429}
              \/ /\ IsHtml(http_got[i].content_type) /\ http_got[i].status_code < 400
                 /\ TitleSignals(http_got[i].doc) )
            => ~IsRendered(i)
       /\ Len(render_pc) = K
  /\ (pc # "render" /\ K = 0) => (launched = 0 /\ browser = 0 /\ used = {})

\* fetch_all returned: a page answered 403 was rendered in the one browser
\* launched, and a page answered 404 was not.
C31_Witness ==
  /\ pc = "done"
  /\ N = 2
  /\ http_got[1].status_code = 403 /\ IsRendered(1)
  /\ http_got[2].status_code = 404 /\ ~IsRendered(2)
  /\ launched = 1

\* A signal phrase occurs in the extracted title, in the extracted description
\* or in the first SOFT_404_PREFIX characters of the extracted content of a
\* document.
SignalIn(field) == \E signal \in SOFT_404_SIGNALS : Contains(field, signal)
DescriptionSignals(doc) == SignalIn(Lower(OrEmpty(extract_description(doc))))
ContentSignals(doc) == SignalIn(Lower(Prefix(ContentExtract(doc), SOFT_404_PREFIX)))

\* C32: in the HTTP phase a 2xx HTML page is rejected with a soft-404 error
\* when a signal phrase occurs in any one of its extracted title, its
\* extracted description or the prefix of its extracted content; a match in
\* the content prefix alone is sufficient.
C32_SoftNotFoundInAnyField ==
  \A i \in 1..N :
    ( /\ HttpCompleted(i)
      /\ ~http_got[i].raises
      /\ http_got[i].status_code \in 200..299
      /\ IsHtml(http_got[i].content_type)
      /\ \/ TitleSignals(http_got[i].doc)
         \/ DescriptionSignals(http_got[i].doc)
         \/ ContentSignals(http_got[i].doc) )
    => http_out[i].value.error = Some("Soft 404: page content indicates an error page")

\* C36: in fetch_all no browser render starts before the HTTP fetch of every
\* page of the batch has completed: the HTTP phase and the render phase never
\* overlap in time.
C36_PhasesDoNotOverlap ==
  /\ (launched > 0 \/ \E j \in 1..Len(render_pc) : render_pc[j] # "wait")
       => \A i \in 1..N : http_pc[i] = "done" /\ http_out[i].kind = "return"
  /\ HttpInFlight # {} => (RenderInFlight = {} /\ launched = 0 /\ Len(render_pc) = 0)

\* Two renders are in flight in a batch of four pages, after all four fetches.
C36_Witness ==
  /\ pc = "render"
  /\ N = 4
  /\ Cardinality(RenderInFlight) = 2
  /\ \A i \in 1..N : http_pc[i] = "done"

\* C37: in every invocation of the progress callback made by fetch_all,
\* 1 <= completed_count <= total_count, the invocations made during the render
\* phase included.
C37_ProgressWithinTotal ==
  Bool(progress) =>
    /\ 1 <= progress[1].completed
    /\ progress[1].completed <= progress[1].total

\* The render of page i succeeded: get_page_content returned and render_one
\* returned the page it extracted from the rendered HTML, without an error.
RenderSucceeded(i) ==
  /\ IsRendered(i)
  /\ ~render_got[TaskOf(i)].raises
  /\ IsNone(render_out[TaskOf(i)].value.error)

\* Page i was flagged as CSR by the HTTP phase, its render was rejected, and
\* its HTTP-phase result was kept.
CsrResultKept(i) ==
  /\ IsRendered(i)
  /\ CsrFlagged(http_got[i])
  /\ RenderRejected(TaskOf(i))
  /\ results[i] = http_out[i].value

\* C38: in the list returned by fetch_all, is_js_rendered is true exactly for
\* the pages whose output came from a successful browser render; a page whose
\* render was rejected, or that was never rendered, has is_js_rendered false.
C38_JsRenderedIffRendered ==
  pc = "done" =>
    \A i \in 1..N :
      results[i].is_js_rendered <=> (RenderSucceeded(i) /\ results[i] = render_out[TaskOf(i)].value)

\* C38, amended: is_js_rendered is true exactly for the pages whose output
\* came from a successful browser render and for the pages flagged as CSR by
\* the HTTP phase that keep their HTTP-phase result after a rejected render;
\* a page sent to the render phase for its status 403 or 429 whose render was
\* rejected, and a page that was never rendered, have is_js_rendered false.
C38_JsRenderedOrKeptCsr ==
  pc = "done" =>
    /\ \A i \in 1..N :
         results[i].is_js_rendered <=>
           \/ RenderSucceeded(i) /\ results[i] = render_out[TaskOf(i)].value
           \/ CsrResultKept(i)
    /\ \A i \in 1..N :
         (~IsRendered(i) \/ (Blocked(http_got[i]) /\ RenderRejected(TaskOf(i))))
           => ~results[i].is_js_rendered

\* fetch_all returned: the render of one CSR page timed out and its output is
\* its HTTP-phase result, flagged; the render of another page succeeded.
C38_Witness ==
  /\ pc = "done"
  /\ N = 2
  /\ \E i, k \in 1..N :
       /\ CsrResultKept(i)
       /\ results[i].is_js_rendered
       /\ render_got[TaskOf(i)] = RenderedPage(NoDoc, 0, Some("Timeout 30000ms exceeded."))
       /\ RenderSucceeded(k)
       /\ results[k].is_js_rendered

(***************************************************************************)
(* Properties of SitemapParser: the cap during recursion, and duplicates.  *)
(***************************************************************************)
\* C33: while sitemap resolution recurses through sitemap indexes, once the
\* running total of entries collected across all nesting levels has reached
\* 500, no further sub-sitemap is fetched.
C33_NoFetchAfterCap ==
  ParsedOverNetwork =>
    \A k \in 1..Len(sitemap_call[1].gets) :
      sitemap_call[1].gets[k].depth > 0 =>
        Len(EntriesFetched(sitemap_call[1].gets, k - 1)) < MAX_SITEMAP_ENTRIES

\* What holds instead: a sub-sitemap is fetched only while the index that
\* names it has collected fewer than 500 entries from the sub-sitemaps it
\* names before it.
C33_NoFetchAfterCapOfItsIndex ==
  ParsedOverNetwork =>
    \A k \in 1..Len(sitemap_call[1].gets) :
      sitemap_call[1].gets[k].depth > 0 =>
        \E p \in 1..(k - 1) :
          /\ sitemap_call[1].gets[p].depth = sitemap_call[1].gets[k].depth - 1
          /\ \A m \in (p + 1)..(k - 1) :
               sitemap_call[1].gets[m].depth >= sitemap_call[1].gets[k].depth
          /\ Len(EntriesFetched(sitemap_call[1].gets, k - 1))
               - Len(EntriesFetched(sitemap_call[1].gets, p)) < MAX_SITEMAP_ENTRIES

\* C34: when the same URL occurs in several sitemap entries, the entry
\* retained in the result is the first occurrence, with the priority value of
\* that first occurrence.
C34_FirstOccurrenceRetained ==
  ParsedOverNetwork =>
    \A k \in 1..Len(ResultEntries) :
      ResultEntries[k] =
        sitemap_call[1].all_entries[FirstSeen(sitemap_call[1].all_entries, ResultEntries[k].url)]

(***************************************************************************)
(* How crawl expands a page.                                               *)
(***************************************************************************)
\* The render of an expansion returned non-empty HTML.
RenderedHtml(f) ==
  /\ Bool(f.rendered)
  /\ ~f.rendered[1].raises
  /\ ~TruthyStr(f.rendered[1].error)
  /\ ~f.rendered[1].html.empty

\* C35: when the crawler expands a page it tries a plain HTTP fetch first and
\* attempts a browser render only if that fetch failed or the fetched page
\* looks CSR; links are taken from the rendered HTML when the render returned
\* non-empty HTML, otherwise from the HTTP HTML; when both fail, or the HTTP
\* fetch fails and no browser is configured, the page yields no links and the
\* crawl continues with the rest of the queue.
C35_HttpFirstThenRender ==
  /\ [](\A k \in 1..Len(fetched) :
          /\ Bool(fetched[k].rendered) =>
               /\ browser_config
               /\ fetched[k].http.raises \/ looks_like_csr(fetched[k].http.text)
          /\ fetched[k].links =
               IF RenderedHtml(fetched[k])
               THEN parse_links(fetched[k].rendered[1].html, fetched[k].url,
                                urlparse(start_url).netloc)
               ELSE IF ~fetched[k].http.raises
               THEN parse_links(fetched[k].http.text, fetched[k].url,
                                urlparse(start_url).netloc)
               ELSE <<>>
          /\ (fetched[k].http.raises /\ ~RenderedHtml(fetched[k])) => fetched[k].links = <<>>)
  /\ [][(Len(fetched') > Len(fetched) /\ fetched'[Len(fetched')].links = <<>>) =>
          /\ crawl_pc' = "loop"
          /\ queue' = Tail(queue)
          /\ Len(discovered') = Len(discovered) + 1]_vars

\* crawl returned after three expansions with a browser configured: the GET of
\* one page and its render both failed, the page yielded no links, and a page
\* expanded after it took its links from the rendered HTML.
C35_Witness ==
  /\ crawl_pc = "done"
  /\ browser_config
  /\ \E k, m \in 1..Len(fetched) :
       /\ k < m
       /\ fetched[k].http.raises
       /\ Bool(fetched[k].rendered) /\ fetched[k].rendered[1].raises
       /\ fetched[k].links = <<>>
       /\ ~fetched[m].http.raises
       /\ RenderedHtml(fetched[m])
       /\ fetched[m].links # <<>>


(***************************************************************************)
(* Concurrent calls of RateLimiter.check.  A call makes two Redis round    *)
(* trips: the pipeline of zremrangebyscore and zcard, and, when the count  *)
(* is under the limit, the pipeline of zadd and expire.  Each pipeline is  *)
(* executed by Redis as one step; other calls run between the two.         *)
(***************************************************************************)

\* The first pipeline of check(identifier, limit, window_seconds), and the
\* return of a call that it finds at the limit (the zrange that a rejected
\* call makes for reset_at changes nothing).
CheckCount(identifier) ==
  /\ Len(checked) + Cardinality(in_flight) < MaxChecks
  /\ \E t \in (now + 1)..(now + rate_window) :
       \E out \in {check(ZSet("ratelimit:" \o identifier), t, rate_limit, rate_window)} :
         /\ now' = t
         /\ redis' = (("ratelimit:" \o identifier) :> (out.zset \ {t})) @@ redis
         /\ IF out.result.allowed
            THEN /\ in_flight' = in_flight \cup {[identifier |-> identifier, at |-> t] @@ out.result}
                 /\ UNCHANGED checked
            ELSE /\ checked' = Append(checked, [identifier |-> identifier, at |-> t] @@ out.result)
                 /\ UNCHANGED in_flight
  /\ UNCHANGED <<rate_limit, rate_window, job_rows, delayed, responses>>
  /\ UNCHANGED <<job_status, task_pc, stream_pc>>
  /\ UNCHANGED <<fetchVars, crawlVars, discVars>>

\* The second pipeline of a call that counted less than the limit, and its
\* return.
CheckRecord(call) ==
  /\ call \in in_flight
  /\ redis' = (("ratelimit:" \o call.identifier)
                 :> (ZSet("ratelimit:" \o call.identifier) \cup {call.at})) @@ redis
  /\ checked' = Append(checked, call)
  /\ in_flight' = in_flight \ {call}
  /\ UNCHANGED <<now, rate_limit, rate_window, job_rows, delayed, responses>>
  /\ UNCHANGED <<job_status, task_pc, stream_pc>>
  /\ UNCHANGED <<fetchVars, crawlVars, discVars>>

ConcurrentCheckSpec ==
  RateLimitInit /\ [][\/ \E identifier \in {"test:a", "test:b"} : CheckCount(identifier)
                      \/ \E call \in in_flight : CheckRecord(call)]_vars

\* C39: when several check calls for one identifier run concurrently, in any
\* interleaving of their Redis operations, the requests allowed within one
\* window are never more than the limit.
C39_AllowedWithinLimit ==
  \A n \in 1..Len(checked) :
    Cardinality({m \in 1..n : /\ checked[m].identifier = checked[n].identifier
                              /\ checked[m].allowed
                              /\ checked[m].at > checked[n].at - rate_window
                              /\ checked[m].at <= checked[n].at}) <= rate_limit


(***************************************************************************)
(* The status of one job (apps/jobs/tasks.py, apps/jobs/views.py).  The    *)
(* row is created pending by JobCreateView.post, which dispatches the      *)
(* generate task; clients open event streams on the job.  The task and the *)
(* streams run in different processes, and each writes the status with one *)
(* UPDATE statement, a step of its own.                                    *)
(***************************************************************************)
MaxStreams == 3

TERMINAL_STATUSES == {"completed", "failed", "cancelled"}

\* A job that was just created, with its task in the queue and no stream
\* opened yet.
JobStatusInit ==
  /\ job_status = "pending"
  /\ task_pc = "queued"
  /\ stream_pc = [s \in 1..MaxStreams |-> "unopened"]
  /\ now = 0
  /\ redis = <<>>
  /\ rate_limit = 0
  /\ rate_window = 0
  /\ checked = <<>>
  /\ job_rows = <<>>
  /\ delayed = 0
  /\ responses = <<>>
  /\ in_flight = {}
  /\ FetchIdle
  /\ CrawlIdle
  /\ DiscoverIdle

\* The status updates of generate itself.  When a worker starts it: without
\* an OpenAI key it marks the job failed and returns, otherwise
\* update_job_status(DISCOVERING) and it runs _run_pipeline.  When
\* _run_pipeline has returned: it stores the result with status COMPLETED.
generate ==
  /\ \/ /\ task_pc = "queued"
        /\ \E openai_key \in BOOLEAN :
             IF ~openai_key
             THEN job_status' = "failed" /\ task_pc' = "returned"
             ELSE job_status' = "discovering" /\ task_pc' = "discovering"
     \/ /\ task_pc = "generating"
        /\ job_status' = "completed"
        /\ task_pc' = "returned"
  /\ UNCHANGED stream_pc
  /\ UNCHANGED <<now, redis, rate_limit, rate_window, checked, job_rows, delayed, responses,
                 in_flight>>
  /\ UNCHANGED <<fetchVars, crawlVars, discVars>>

\* _run_pipeline enters its next phase: update_job_status(EXTRACTING),
\* (ENHANCING), (GENERATING).
run_pipeline ==
  /\ task_pc \in {"discovering", "extracting", "enhancing"}
  /\ \E phase \in {CASE task_pc = "discovering" -> "extracting"
                     [] task_pc = "extracting" -> "enhancing"
                     [] task_pc = "enhancing" -> "generating"} :
       job_status' = phase /\ task_pc' = phase
  /\ UNCHANGED stream_pc
  /\ UNCHANGED <<now, redis, rate_limit, rate_window, checked, job_rows, delayed, responses,
                 in_flight>>
  /\ UNCHANGED <<fetchVars, crawlVars, discVars>>

\* generate raised (an error of the pipeline, or SoftTimeLimitExceeded):
\* on_failure marks the job failed.
on_failure ==
  /\ task_pc \in {"discovering", "extracting", "enhancing", "generating"}
  /\ job_status' = "failed"
  /\ task_pc' = "failed"
  /\ UNCHANGED stream_pc
  /\ UNCHANGED <<now, redis, rate_limit, rate_window, checked, job_rows, delayed, responses,
                 in_flight>>
  /\ UNCHANGED <<fetchVars, crawlVars, discVars>>

\* JobStreamView.get reads the job and starts _stream_events(job_id,
\* job.status), which returns at once when that status is terminal.
StreamOpens(s) ==
  /\ stream_pc[s] = "unopened"
  /\ stream_pc' = [stream_pc EXCEPT ![s] = IF job_status \in TERMINAL_STATUSES
                                           THEN "closed" ELSE "streaming"]
  /\ UNCHANGED <<job_status, task_pc>>
  /\ UNCHANGED <<now, redis, rate_limit, rate_window, checked, job_rows, delayed, responses,
                 in_flight>>
  /\ UNCHANGED <<fetchVars, crawlVars, discVars>>

\* The loop of _stream_events ends.  Either the stream is
\* SSE_STREAM_TIMEOUT_SECONDS old: it marks the job failed unless its status
\* is terminal, and returns.  Or it received a terminal event, or its poll of
\* the row found a terminal status: it sends the snapshot and returns.
stream_events_returns(s) ==
  /\ stream_pc[s] = "streaming"
  /\ \/ job_status' = IF job_status \in TERMINAL_STATUSES THEN job_status ELSE "failed"
     \/ job_status \in TERMINAL_STATUSES /\ UNCHANGED job_status
  /\ stream_pc' = [stream_pc EXCEPT ![s] = "closed"]
  /\ UNCHANGED task_pc
  /\ UNCHANGED <<now, redis, rate_limit, rate_window, checked, job_rows, delayed, responses,
                 in_flight>>
  /\ UNCHANGED <<fetchVars, crawlVars, discVars>>

JobStatusSpec ==
  JobStatusInit /\ [][\/ generate
                      \/ run_pipeline
                      \/ on_failure
                      \/ \E s \in 1..MaxStreams : StreamOpens(s)
                      \/ \E s \in 1..MaxStreams : stream_events_returns(s)]_vars

\* C40: once the status of a job is completed, failed or cancelled it never
\* changes again, however the status updates of the task, its failure
\* handler and the timeout handler of the event streams interleave.
C40_TerminalStatusIsFinal ==
  [][(job_status \in TERMINAL_STATUSES) => (job_status' = job_status)]_vars

\* A status written by the timeout handler of a stream is never replaced.
C40_StreamNeverOverwrites ==
  [][(\E s \in 1..MaxStreams : stream_pc'[s] # stream_pc[s])
       => ((job_status \in TERMINAL_STATUSES) => (job_status' = job_status))]_vars

=============================================================================
